---- MODULE Spec2Model ----
(***************************************************************************)
(* Window-lifecycle / event-coordination layer of the Kiosk desktop:       *)
(* WindowManager (src/src/components/WindowManager.ts), Taskbar            *)
(* (src/unnamed/part_001) and the Desktop orchestrator                     *)
(* (src/src/components/Desktop.ts).                                        *)
(*                                                                         *)
(* Every handler runs to completion on the single UI thread, so each       *)
(* handler is one action.  A handler and all the callbacks it reaches      *)
(* synchronously are written as operators that map a state record to a     *)
(* state record; an action applies the handler to the current state and    *)
(* commits the result.                                                     *)
(***************************************************************************)
EXTENDS Integers, Sequences, FiniteSets, TLC

VARIABLES
    windows,        \* WindowManager.windows: the keys of the Map, in insertion order
    windowCounter,  \* WindowManager.windowCounter
    winbox,         \* the WinBox instances of the visual engine, by id
    stack_win,      \* the visual engine's window stack (ids, bottom to top)
    taskbarItems,   \* Taskbar.taskbarItems: id -> TaskbarItem
    programButtons, \* the buttons in #taskbar-programs, in document order
    emitted,        \* the lifecycle events emitted by the last handler, in order
    opened,         \* ids whose open event was delivered and whose close event was not
    calls,          \* the WindowManager operations invoked by the last handler, in order
    last,           \* the last handler run: its name, argument and result
    isStartMenuOpen,  \* Taskbar.isStartMenuOpen
    startMenuDisplay, \* style.display of #start-menu
    startButtonActive,\* whether #start-button carries the class 'active'
    clockInterval,    \* Taskbar.clockInterval: whether the periodic refresh is registered
    clockTime,        \* textContent of #clock-time
    tooltipDate,      \* textContent of #tooltip-date
    icons,            \* Desktop.icons and their elements: icon id ->
                      \* action identifier, whether of class 'selected'
    selectedIcon,     \* Desktop.selectedIcon
    mounted,          \* whether main.ts holds a Desktop (state.desktop is not null)
    zombies,          \* the destroyed Desktops, oldest first, each as a state record
    handlers,         \* how many listeners ran for the last document event
    apps,             \* AppRegistry.apps: the definitions, in insertion order
    registered,       \* the definitions the registry accepted, in call order
    listing,          \* the arrays getStartMenuApps and getDesktopApps last returned
    tasks,            \* the launch() invocations so far, each with its promise
    positions         \* the default position each live window was created at

vars == <<windows, windowCounter, winbox, stack_win, taskbarItems,
          programButtons, emitted, opened, calls, last,
          isStartMenuOpen, startMenuDisplay, startButtonActive, clockInterval,
          clockTime, tooltipDate,
          icons, selectedIcon, mounted, zombies, handlers,
          apps, registered, listing, tasks, positions>>

-----------------------------------------------------------------------------
(* Bounds *)

MaxCounter == 1     \* createWindow calls without an id

(* Ids a caller passes to createWindow; "" stands for an absent id. *)
ConfigIds == {"window-1"}

(* Action identifiers sent on the menu-action channel. *)
MenuActions == {"shutdown", "no-such-action"}

SyntheticId(n) == "window-" \o ToString(n)

AllIds == ConfigIds \cup {"shutdown-dialog"} \cup {SyntheticId(n) : n \in 1..MaxCounter}

(* The title a caller passes with an explicit id; none with an absent id. *)
TitleOf(id) == IF id = "" THEN "" ELSE "Kiosk"

EmptyMap == [x \in {} |-> TRUE]

(* null, for Desktop.selectedIcon *)
Null == "<null>"

(* The icons Desktop.createDefaultIcons adds: id -> action, not selected. *)
DefaultIcons ==
    [id \in {"my-computer", "my-documents", "recycle-bin"} |->
        [action |-> id, selected |-> FALSE]]

-----------------------------------------------------------------------------
(* Helpers on sequences and maps *)

Remove(seq, x) == SelectSeq(seq, LAMBDA y : y # x)

Contains(seq, x) == \E i \in 1..Len(seq) : seq[i] = x

MaxOf(S) == CHOOSE m \in S : \A k \in S : k <= m

MinOf(S) == CHOOSE m \in S : \A k \in S : m <= k

MapSet(f, k, v) == [x \in DOMAIN f \cup {k} |-> IF x = k THEN v ELSE f[x]]

MapDelete(f, k) == [x \in DOMAIN f \ {k} |-> f[x]]

-----------------------------------------------------------------------------
(* Taskbar: program list (src/unnamed/part_001).  The page provides the    *)
(* #taskbar-programs container, so addProgram does not return early.       *)

FirstButton(s, id) ==
    LET hits == {i \in 1..Len(s.programButtons) : s.programButtons[i].id = id}
    IN  IF hits = {} THEN 0 ELSE MinOf(hits)

(* Taskbar.addProgram: store the item, append a button for it. *)
addProgram(s, item) ==
    [s EXCEPT !.taskbarItems = MapSet(@, item.id, item),
              !.programButtons = Append(@, [id |-> item.id, windowId |-> item.windowId,
                                            title |-> item.title, active |-> item.active])]

(* removeProgram with the map entry left behind. *)
removeProgram_keepItem(s, id) ==
    LET b == FirstButton(s, id)
    IN  [s EXCEPT !.programButtons =
                      IF b = 0 THEN @
                      ELSE SubSeq(@, 1, b - 1) \o SubSeq(@, b + 1, Len(@))]

(* Taskbar.removeProgram: remove the button with that DOM id, delete the item. *)
removeProgram(s, id) ==
    LET b == FirstButton(s, id)
    IN  [s EXCEPT !.programButtons =
                      IF b = 0 THEN @
                      ELSE SubSeq(@, 1, b - 1) \o SubSeq(@, b + 1, Len(@)),
                  !.taskbarItems = MapDelete(@, id)]

(* setActiveProgram that makes an entry for an id that has none. *)
setActiveProgram_upsert(s, id, active) ==
    [s EXCEPT !.taskbarItems =
                  IF id \in DOMAIN @ THEN [@ EXCEPT ![id].active = active]
                  ELSE MapSet(@, id, [id |-> id, windowId |-> id, title |-> "",
                                      active |-> active])]

(* Taskbar.setActiveProgram: item.active and the button's 'active' class. *)
setActiveProgram(s, id, active) ==
    LET b  == FirstButton(s, id)
        s1 == IF id \in DOMAIN s.taskbarItems
              THEN [s EXCEPT !.taskbarItems[id].active = active]
              ELSE s
    IN  IF b = 0 THEN s1 ELSE [s1 EXCEPT !.programButtons[b].active = active]

(* Taskbar.updateProgramTitle: item.title and the button's title text. *)
updateProgramTitle(s, id, title) ==
    LET b  == FirstButton(s, id)
        s1 == IF id \in DOMAIN s.taskbarItems
              THEN [s EXCEPT !.taskbarItems[id].title = title]
              ELSE s
    IN  IF b = 0 THEN s1 ELSE [s1 EXCEPT !.programButtons[b].title = title]

-----------------------------------------------------------------------------
(* Desktop: the lifecycle callbacks it installs on the WindowManager *)

(* WindowManager.hasWindow / getWindow on the state record. *)
hasWindow(s, id) == Contains(s.windows, id)

onWindowOpen(s, windowId) ==
    IF hasWindow(s, windowId)
    THEN addProgram(s, [id |-> windowId,
                        title |-> IF s.winbox[windowId].title = "" THEN "Window"
                                  ELSE s.winbox[windowId].title,
                        windowId |-> windowId,
                        active |-> TRUE])
    ELSE s

onWindowClose(s, windowId) == removeProgram(s, windowId)

onWindowFocus(s, windowId) == setActiveProgram(s, windowId, TRUE)

(* The blur callback that leaves the taskbar as it is. *)
onWindowBlur_ignored(s, windowId) == s

onWindowBlur(s, windowId) == setActiveProgram(s, windowId, FALSE)

-----------------------------------------------------------------------------
(* WindowManager.emitEvent and the callbacks createWindow hands to WinBox *)

(* The event as a listener sees it at delivery: live is what hasWindow(id)   *)
(* answers inside the handler, afterOpen whether the id's open event has    *)
(* been delivered and its close event has not.                              *)
Delivered(s, type, windowId) ==
    [type |-> type, windowId |-> windowId,
     live |-> hasWindow(s, windowId), afterOpen |-> windowId \in s.opened]

(* emitEvent: run the callback installed for the type.  The timestamp is   *)
(* not modelled; the 'window-event' CustomEvent dispatched afterwards has   *)
(* no listener in the program.                                              *)
emitEvent(s, type, windowId) ==
    LET s1 == [s EXCEPT !.emitted = Append(@, Delivered(s, type, windowId)),
                        !.opened = CASE type = "open"  -> @ \cup {windowId}
                                     [] type = "close" -> @ \ {windowId}
                                     [] OTHER          -> @]
    IN  CASE type = "open"  -> onWindowOpen(s1, windowId)
          [] type = "close" -> onWindowClose(s1, windowId)
          [] type = "focus" -> onWindowFocus(s1, windowId)
          [] type = "blur"  -> onWindowBlur(s1, windowId)
          [] OTHER          -> s1   \* onWindowMinimize/Maximize/Restore are never set

onfocus(s, id) == emitEvent(s, "focus", id)

onblur(s, id) == emitEvent(s, "blur", id)

onminimize(s, id) == emitEvent(s, "minimize", id)

onmaximize(s, id) == emitEvent(s, "maximize", id)

(* onrestore that forgets to emit. *)
onrestore_silent(s, id) == s

onrestore(s, id) == emitEvent(s, "restore", id)

(* onclose: emit the close event, then delete the id from the map. *)
(* onclose that leaves the window in the map. *)
onclose_keepsEntry(s, id) == emitEvent(s, "close", id)

onclose(s, id) ==
    LET s1 == emitEvent(s, "close", id)
    IN  [s1 EXCEPT !.windows = Remove(@, id)]

-----------------------------------------------------------------------------
(* The visual engine: WinBox (winbox/src/js/winbox.js, imported at          *)
(* WindowManager.ts:7, declared at WindowManager.ts:552-587).  The engine   *)
(* is an external collaborator; its methods are modelled by the contract    *)
(* the core relies on: a method performs its transition only when the       *)
(* window is not already in the target state and then invokes the callback  *)
(* it was given; the constructor focuses the new window.                    *)

WinBox_blur(s, id) ==
    IF s.winbox[id].focused
    THEN onblur([s EXCEPT !.winbox[id].focused = FALSE], id)
    ELSE s

(* focus: blur the focused window of the stack, raise this one. *)
WinBox_focus(s, id) ==
    IF s.winbox[id].focused THEN s
    ELSE LET n    == Len(s.stack_win)
             hits == {i \in 1..n : s.winbox[s.stack_win[i]].focused}
             s1   == IF n > 1 /\ hits # {}
                     THEN [WinBox_blur(s, s.stack_win[MaxOf(hits)])
                              EXCEPT !.stack_win = Append(Remove(@, id), id)]
                     ELSE s
         IN  onfocus([s1 EXCEPT !.winbox[id].focused = TRUE], id)

(* focus_next: focus the topmost window that is not minimized. *)
focus_next(s) ==
    LET hits == {i \in 1..Len(s.stack_win) : ~s.winbox[s.stack_win[i]].min}
    IN  IF hits = {} THEN s ELSE WinBox_focus(s, s.stack_win[MaxOf(hits)])

WinBox_minimize(s, id) ==
    LET s1 == [s EXCEPT !.winbox[id].max = FALSE]
    IN  IF s1.winbox[id].min THEN s1
        ELSE LET s2 == [s1 EXCEPT !.winbox[id].min = TRUE]
                 s3 == IF s2.winbox[id].focused
                       THEN focus_next(WinBox_blur(s2, id))
                       ELSE s2
             IN  onminimize(s3, id)

WinBox_maximize(s, id) ==
    LET s1 == [s EXCEPT !.winbox[id].min = FALSE]
    IN  IF s1.winbox[id].max THEN s1
        ELSE onmaximize([s1 EXCEPT !.winbox[id].max = TRUE], id)

WinBox_restore(s, id) ==
    LET s1 == IF s.winbox[id].min
              THEN onrestore([s EXCEPT !.winbox[id].min = FALSE], id)
              ELSE s
    IN  IF s1.winbox[id].max
        THEN onrestore([s1 EXCEPT !.winbox[id].max = FALSE], id)
        ELSE s1

(* close: onclose returned false, so the window is torn down; if it was the *)
(* focused one the next window of the stack is focused.                     *)
WinBox_close(s, id) ==
    LET wasFocused == s.winbox[id].focused
        s1 == onclose(s, id)
        s2 == [s1 EXCEPT !.stack_win = Remove(@, id),
                         !.winbox = MapDelete(@, id)]
    IN  IF wasFocused THEN focus_next(s2) ELSE s2

(* new WinBox(options): the instance joins the stack and is focused. *)
WinBox_new(s, id, title) ==
    LET s1 == [s EXCEPT !.winbox = MapSet(@, id, [title |-> title, min |-> FALSE,
                                                  max |-> FALSE, focused |-> FALSE]),
                        !.stack_win = Append(@, id)]
    IN  WinBox_focus(s1, id)

-----------------------------------------------------------------------------
(* WindowManager operations (src/src/components/WindowManager.ts).  Each    *)
(* returns the state record with its result in field ret, and is entered    *)
(* in field calls, the operations invoked by the running handler.           *)

Called(s, op, id) == [s EXCEPT !.calls = Append(@, [op |-> op, id |-> id])]

focusWindow(s, id) ==
    LET c == Called(s, "focusWindow", id)
    IN  IF hasWindow(c, id)
        THEN [WinBox_focus(c, id) EXCEPT !.ret = TRUE]
        ELSE [c EXCEPT !.ret = FALSE]

(* The cascade: the default position is offset by a fixed step per window *)
(* in the map at the time of the call.                                     *)
taskbarHeight == 28

CascadeOriginX == 50

CascadeOriginY == 20

CascadeStep == 30

defaultPosition(s) ==
    LET existingCount == Len(s.windows)
    IN  [x |-> CascadeOriginX + (existingCount * CascadeStep),
         y |-> taskbarHeight + CascadeOriginY + (existingCount * CascadeStep)]

(* createWindow without the check for an existing window. *)
createWindow_noExistingCheck(s, config) ==
    LET auto == config.id = ""
        id   == IF auto THEN SyntheticId(s.windowCounter + 1) ELSE config.id
        c    == Called(s, "createWindow", id)
        s0   == IF auto THEN [c EXCEPT !.windowCounter = @ + 1] ELSE c
        title == IF config.title = "" THEN "Window" ELSE config.title
        s1 == WinBox_new(s0, id, title)
        s2 == [s1 EXCEPT !.windows = Append(@, id)]
        s3 == emitEvent(s2, "open", id)
    IN  [s3 EXCEPT !.ret = [id |-> id, fresh |-> TRUE]]

(* createWindow: config.id = "" stands for an absent id.  The result names  *)
(* the instance returned and tells whether it was constructed by this call. *)
createWindow(s, config) ==
    LET auto == config.id = ""
        id   == IF auto THEN SyntheticId(s.windowCounter + 1) ELSE config.id
        c    == Called(s, "createWindow", id)
        s0   == IF auto THEN [c EXCEPT !.windowCounter = @ + 1] ELSE c
    IN  IF hasWindow(s0, id)
        THEN [focusWindow(s0, id) EXCEPT !.ret = [id |-> id, fresh |-> FALSE]]
        ELSE LET title == IF config.title = "" THEN "Window" ELSE config.title
                 s1 == WinBox_new(s0, id, title)
                 s2 == [s1 EXCEPT !.windows = Append(@, id)]
                 s3 == emitEvent(s2, "open", id)
             IN  [s3 EXCEPT !.ret = [id |-> id, fresh |-> TRUE]]

closeWindow(s, id) ==
    LET c == Called(s, "closeWindow", id)
    IN  IF hasWindow(c, id)
        THEN [WinBox_close(c, id) EXCEPT !.ret = TRUE]
        ELSE [c EXCEPT !.ret = FALSE]

(* minimizeWindow that reports success for any id. *)
minimizeWindow_alwaysTrue(s, id) ==
    LET c == Called(s, "minimizeWindow", id)
    IN  IF hasWindow(c, id)
        THEN [WinBox_minimize(c, id) EXCEPT !.ret = TRUE]
        ELSE [c EXCEPT !.ret = TRUE]

minimizeWindow(s, id) ==
    LET c == Called(s, "minimizeWindow", id)
    IN  IF hasWindow(c, id)
        THEN [WinBox_minimize(c, id) EXCEPT !.ret = TRUE]
        ELSE [c EXCEPT !.ret = FALSE]

maximizeWindow(s, id) ==
    LET c == Called(s, "maximizeWindow", id)
    IN  IF hasWindow(c, id)
        THEN [WinBox_maximize(c, id) EXCEPT !.ret = TRUE]
        ELSE [c EXCEPT !.ret = FALSE]

restoreWindow(s, id) ==
    LET c == Called(s, "restoreWindow", id)
    IN  IF hasWindow(c, id)
        THEN [WinBox_restore(c, id) EXCEPT !.ret = TRUE]
        ELSE [c EXCEPT !.ret = FALSE]

toggleMinimize(s, id) ==
    LET c == Called(s, "toggleMinimize", id)
    IN  IF hasWindow(c, id)
        THEN [(IF c.winbox[id].min THEN WinBox_restore(c, id) ELSE WinBox_minimize(c, id))
                 EXCEPT !.ret = TRUE]
        ELSE [c EXCEPT !.ret = FALSE]

(* isMinimized: win?.min || false *)
isMinimized(s, id) == hasWindow(s, id) /\ s.winbox[id].min

(* undefined, for getWindow *)
Undefined == "<undefined>"

(* getWindow: this.windows.get(id) *)
getWindow(s, id) == IF hasWindow(s, id) THEN s.winbox[id] ELSE Undefined

(* getWindowIds listing only the windows that are not minimized. *)
getWindowIds_shown(s) == SelectSeq(s.windows, LAMBDA id : ~s.winbox[id].min)

(* getWindowIds: Array.from(this.windows.keys()) *)
getWindowIds(s) == s.windows

(* closeAllWindows: Map.forEach visits the keys in insertion order; a key   *)
(* deleted by onclose before it is reached is not visited.                  *)
RECURSIVE closeEach(_, _)
closeEach(s, todo) ==
    IF todo = <<>> THEN s
    ELSE IF hasWindow(s, Head(todo))
         THEN closeEach(WinBox_close(s, Head(todo)), Tail(todo))
         ELSE closeEach(s, Tail(todo))

(* closeAllWindows that clears the map without closing the windows. *)
closeAllWindows_clearOnly(s) ==
    [Called(s, "closeAllWindows", "") EXCEPT !.windows = <<>>, !.ret = TRUE]

closeAllWindows(s) ==
    LET c == Called(s, "closeAllWindows", "")
    IN  [closeEach(c, c.windows) EXCEPT !.windows = <<>>, !.ret = TRUE]

-----------------------------------------------------------------------------
(* Desktop: window openers, menu actions and document-level listeners *)

openMyComputer(s) == createWindow(s, [id |-> "my-computer", title |-> "My Computer"])

openMyDocuments(s) == createWindow(s, [id |-> "my-documents", title |-> "My Documents"])

openSettings(s) == createWindow(s, [id |-> "settings", title |-> "Settings"])

(* The Run opener with the id of the action. *)
openRunDialog_actionId(s) == createWindow(s, [id |-> "run", title |-> "Run"])

openRunDialog(s) == createWindow(s, [id |-> "run-dialog", title |-> "Run"])

openRecycleBin(s) == createWindow(s, [id |-> "recycle-bin", title |-> "Recycle Bin"])

showShutdownDialog(s) ==
    createWindow(s, [id |-> "shutdown-dialog", title |-> "Shut Down Windows"])

(* A handler that opens a window for whatever action it is given. *)
handleMenuAction_openAny(s, action) ==
    createWindow(s, [id |-> action, title |-> action])

handleMenuAction(s, action) ==
    CASE action = "my-computer"  -> openMyComputer(s)
      [] action = "my-documents" -> openMyDocuments(s)
      [] action = "settings"     -> openSettings(s)
      [] action = "run"          -> openRunDialog(s)
      [] action = "shutdown"     -> showShutdownDialog(s)
      [] action = "recycle-bin"  -> openRecycleBin(s)
      [] OTHER                   -> s     \* console.log('Unknown action:', action)

(* The listener without the restore. *)
taskbarClickListener_focusOnly(s, windowId) == focusWindow(s, windowId)

(* The listener restoring whatever the window's state. *)
taskbarClickListener_alwaysRestore(s, windowId) ==
    focusWindow(restoreWindow(s, windowId), windowId)

(* The 'taskbar-click' listener: restore if minimized, then focus. *)
taskbarClickListener(s, windowId) ==
    LET s1 == IF isMinimized(s, windowId) THEN restoreWindow(s, windowId) ELSE s
    IN  focusWindow(s1, windowId)

(* Opening that sets the flag and leaves the page as it is. *)
openStartMenu_flagOnly(s) == [s EXCEPT !.isStartMenuOpen = TRUE]

(* Taskbar start menu: #start-menu and #start-button are in the page. *)
openStartMenu(s) ==
    [s EXCEPT !.startMenuDisplay = "flex", !.isStartMenuOpen = TRUE,
              !.startButtonActive = TRUE]

closeStartMenu(s) ==
    [s EXCEPT !.startMenuDisplay = "none", !.isStartMenuOpen = FALSE,
              !.startButtonActive = FALSE]

toggleStartMenu(s) ==
    IF s.isStartMenuOpen THEN closeStartMenu(s) ELSE openStartMenu(s)

(* Desktop icon selection and activation *)
(* Desktop.addIcon: the map entry and a new element icon-<id>, not       *)
(* selected; #desktop-icons is in the page.                              *)
addIcon(s, icon) ==
    [s EXCEPT !.icons = MapSet(@, icon.id, [action |-> icon.action,
                                            selected |-> FALSE])]

(* Desktop.removeIcon: the element, if there is one, and the map entry. *)
removeIcon(s, id) == [s EXCEPT !.icons = MapDelete(@, id)]

(* classList.add / classList.remove of 'selected' on the element      *)
(* icon-<id>, where there is one.                                       *)
SetSelected(s, id, on) ==
    IF id \in DOMAIN s.icons
    THEN [s EXCEPT !.icons = [@ EXCEPT ![id] = [@ EXCEPT !.selected = on]]]
    ELSE s

(* Selecting that leaves the previous icon marked. *)
selectIcon_keepPrevious(s, id) ==
    [SetSelected(s, id, TRUE) EXCEPT !.selectedIcon = id]

selectIcon(s, id) ==
    LET s1 == IF s.selectedIcon # Null
              THEN SetSelected(s, s.selectedIcon, FALSE) ELSE s
    IN  [SetSelected(s1, id, TRUE) EXCEPT !.selectedIcon = id]

deselectAllIcons(s) ==
    IF s.selectedIcon # Null
    THEN [SetSelected(s, s.selectedIcon, FALSE) EXCEPT !.selectedIcon = Null]
    ELSE s

(* Activation that opens a window named after the icon. *)
activateIcon_byId(s, id) == handleMenuAction_openAny(s, id)

activateIcon(s, id) ==
    IF id \in DOMAIN s.icons THEN handleMenuAction(s, s.icons[id].action) ELSE s

(* The 'keydown' listener; the four tests run in the order of the code. *)
handleKeyboard(s, key, ctrlKey) ==
    LET s1 == IF key = "Meta" \/ (ctrlKey /\ key = "Escape")
              THEN toggleStartMenu(s) ELSE s
        \* 'Delete' with a selected icon only logs
        s2 == IF key = "Enter" /\ s1.selectedIcon # Null
              THEN activateIcon(s1, s1.selectedIcon) ELSE s1
    IN  IF key = "Escape" THEN closeStartMenu(s2) ELSE s2

(* document.dispatchEvent, as one Desktop sees it: the listeners Desktop.init *)
(* registers on document are 'taskbar-click', 'menu-action' and 'keydown';   *)
(* an event of any other type reaches no listener.                           *)
dispatchEvent(s, type, detail) ==
    CASE type = "taskbar-click" -> taskbarClickListener(s, detail)
      [] type = "menu-action"   -> handleMenuAction(s, detail)
      [] type = "keydown"       -> handleKeyboard(s, detail.key, detail.ctrlKey)
      [] OTHER                  -> s

(* Mouse clicks.  A click has a target element; the listeners on the       *)
(* target run first and the event then bubbles to document, where the      *)
(* Taskbar listens, unless a listener stopped the propagation.             *)

InStartButton(target) == target.kind = "start-button"

InStartMenu(target) == target.kind \in {"menu-item", "menu"}

(* Taskbar.handleClickOutside, on document *)
handleClickOutside(s, target) ==
    IF s.isStartMenuOpen /\ ~InStartButton(target) /\ ~InStartMenu(target)
    THEN closeStartMenu(s) ELSE s

(* Taskbar.handleStartButtonClick; it stops the propagation. *)
handleStartButtonClick(s) == toggleStartMenu(s)

(* Taskbar.handleMenuAction: dispatches 'menu-action' on document.  An    *)
(* exception thrown by a listener is reported by dispatchEvent and does   *)
(* not reach the dispatcher; a listener that throws leaves no effect here. *)
Taskbar_handleMenuAction(s, action, throws) ==
    LET c == Called(s, "dispatchEvent", action)
    IN  IF throws THEN c ELSE dispatchEvent(c, "menu-action", action)

(* The menu click listener that leaves the menu open. *)
handleMenuClick_staysOpen(s, target) ==
    IF target.kind # "menu-item" THEN s
    ELSE IF target.id # ""
         THEN Taskbar_handleMenuAction(s, target.id, target.throws) ELSE s

(* Taskbar.handleMenuClick, on #start-menu-items: the target's menu item *)
(* with a data-action, its action dispatched, then the menu closed.      *)
handleMenuClick(s, target) ==
    IF target.kind # "menu-item" THEN s
    ELSE LET s1 == IF target.id # ""
                   THEN Taskbar_handleMenuAction(s, target.id, target.throws)
                   ELSE s
         IN  closeStartMenu(Called(s1, "closeStartMenu", ""))

(* A click that reaches document whatever its target. *)
click_bubbling(s, target) ==
    handleClickOutside(
        CASE target.kind = "start-button" -> handleStartButtonClick(s)
          [] target.kind = "menu-item" -> handleMenuClick(s, target)
          [] target.kind = "icon" -> selectIcon(s, target.id)
          [] target.kind = "desktop" -> deselectAllIcons(s)
          [] target.kind = "taskbar-program" -> dispatchEvent(s, "taskbar-click", target.id)
          [] OTHER -> s,
        target)

(* The 'click' event on a target. *)
click(s, target) ==
    CASE target.kind = "start-button" ->
             handleStartButtonClick(s)                  \* e.stopPropagation()
      [] target.kind = "menu-item" ->
             handleClickOutside(handleMenuClick(s, target), target)
      [] target.kind = "menu" ->
             handleClickOutside(s, target)
      [] target.kind = "icon" ->
             selectIcon(s, target.id)                   \* e.stopPropagation()
      [] target.kind = "desktop" ->
             handleClickOutside(deselectAllIcons(s), target)
      [] target.kind = "taskbar-program" ->
             handleClickOutside(dispatchEvent(s, "taskbar-click", target.id), target)
      [] target.kind = "window" ->
             handleClickOutside(s, target)

(* The 'dblclick' event on an icon; it stops the propagation. *)
dblclick(s, id) == activateIcon(s, id)

(* The wall clock: the instants new Date() yields. *)
Instants ==
    { [hours |-> 0,  minutes |-> 5, weekday |-> "Monday"],
      [hours |-> 13, minutes |-> 5, weekday |-> "Tuesday"] }

(* The instant at which the Desktop is constructed. *)
BootInstant == [hours |-> 0, minutes |-> 5, weekday |-> "Monday"]

(* n.toString().padStart(2, '0'), for n < 100 *)
padStart2(n) == <<n \div 10, n % 10>>

(* getLocalDateTime: the fields the Taskbar shows.  time_12h is          *)
(* `${hours12}:${minutes} ${ampm}`; the date texts stand for the weekday *)
(* and the long date of the instant.                                     *)
getLocalDateTime(now) ==
    LET ampm    == IF now.hours >= 12 THEN "PM" ELSE "AM"
        hours12 == IF now.hours % 12 = 0 THEN 12 ELSE now.hours % 12
    IN  [time_12h |-> <<hours12, padStart2(now.minutes), ampm>>,
         day_of_week |-> now.weekday,
         date_long |-> now.weekday]

(* How updateClock ends: it returns, or an exception leaves it. *)
Returned == "<returned>"

Thrown == "<thrown>"

(* The outcomes of the successive calls of getLocalDateTime in one     *)
(* updateClock: TRUE where the call returns, FALSE where it throws.    *)
ReadOutcomes == {<<TRUE>>, <<FALSE, TRUE>>, <<FALSE, FALSE>>}

(* Taskbar.updateClock: #clock-time and #tooltip-date are in the page.  *)
(* The try block reads the time and writes both texts; the catch block  *)
(* reads the time again and writes the clock text, outside any try.     *)
updateClock(s, now, reads) ==
    LET dateTime == getLocalDateTime(now)
    IN  IF reads[1]
        THEN [s EXCEPT !.clockTime = dateTime.time_12h,
                       !.tooltipDate = <<dateTime.day_of_week, dateTime.date_long>>,
                       !.ret = Returned]
        ELSE IF reads[2]
             THEN [s EXCEPT !.clockTime = dateTime.time_12h, !.ret = Returned]
             ELSE [s EXCEPT !.ret = Thrown]

(* Teardown that leaves the interval running. *)
Taskbar_destroy_keepsClock(s) == s

(* Taskbar.destroy: stops the clock; the listeners it removes are the *)
(* Taskbar's own (start button, menu items, click-outside, clock).    *)
Taskbar_destroy(s) == [s EXCEPT !.clockInterval = FALSE]

(* getWindow that makes the window when there is none. *)
getWindow_orCreate(s, id) ==
    IF hasWindow(s, id) THEN [s EXCEPT !.ret = getWindow(s, id)]
    ELSE createWindow(s, [id |-> id, title |-> ""])

(* The four queries as calls: the state they leave and the value returned. *)
Call_isMinimized(s, id) == [s EXCEPT !.ret = isMinimized(s, id)]

Call_hasWindow(s, id) == [s EXCEPT !.ret = hasWindow(s, id)]

Call_getWindow(s, id) == [s EXCEPT !.ret = getWindow(s, id)]

Call_getWindowIds(s) == [s EXCEPT !.ret = getWindowIds(s)]

(* WindowManager.destroy *)
WindowManager_destroy(s) == closeAllWindows(s)

(* Desktop.destroy: the document listeners registered by                   *)
(* setupWindowManagerEvents, setupDesktopEvents and setupMenuActions are    *)
(* anonymous functions and stay registered.                                 *)
Desktop_destroy(s) == WindowManager_destroy(Taskbar_destroy(s))

(* new Desktop(): a new Taskbar, a new WindowManager, the default icons. *)
NewDesktop ==
    [windows |-> <<>>, windowCounter |-> 0, winbox |-> EmptyMap,
     stack_win |-> <<>>, taskbarItems |-> EmptyMap,
     programButtons |-> <<>>, emitted |-> <<>>, opened |-> {},
     calls |-> <<>>, ret |-> TRUE,
     isStartMenuOpen |-> FALSE, startMenuDisplay |-> "none",
     startButtonActive |-> FALSE, clockInterval |-> TRUE,
     clockTime |-> getLocalDateTime(BootInstant).time_12h,
     tooltipDate |-> <<getLocalDateTime(BootInstant).day_of_week,
                       getLocalDateTime(BootInstant).date_long>>,
     icons |-> DefaultIcons, selectedIcon |-> Null]

-----------------------------------------------------------------------------
(* AppRegistry (src/unnamed/part_001) and the core apps                     *)
(* (src/src/apps/coreApps.ts).  An AppDefinition is a record; its launch    *)
(* function is given by what it does when called (field factory) and the    *)
(* WindowConfig it produces (fields windowId, windowTitle).  The registry   *)
(* is the sequence of the Map's values in insertion order.                  *)

(* startMenuGroup: undefined *)
NoGroup == ""

START_MENU_ORDER == <<"primary", "secondary", "power">>

(* What a launch function can do when called. *)
Factories == {"returns", "resolves", "rejects", "hangs", "throws"}

defineApp(id, title, startMenuGroup, showOnDesktop, windowId, windowTitle) ==
    [id |-> id, title |-> title, startMenuGroup |-> startMenuGroup,
     showOnDesktop |-> showOnDesktop, factory |-> "returns",
     windowId |-> windowId, windowTitle |-> windowTitle]

coreApps ==
    << defineApp("my-computer", "My Computer", "primary", TRUE,
                 "my-computer", "My Computer"),
       defineApp("my-documents", "My Documents", "primary", TRUE,
                 "my-documents", "My Documents"),
       defineApp("settings", "Settings", "secondary", FALSE, "settings", "Settings"),
       defineApp("run", "Run...", "secondary", FALSE, "run-dialog", "Run"),
       defineApp("recycle-bin", "Recycle Bin", NoGroup, TRUE,
                 "recycle-bin", "Recycle Bin"),
       defineApp("shutdown", "Shut Down...", "power", FALSE,
                 "shutdown-dialog", "Shut Down Windows") >>

(* Array.prototype.indexOf, zero-based, -1 when absent *)
indexOf(seq, x) ==
    IF \E i \in 1..Len(seq) : seq[i] = x
    THEN MinOf({i \in 1..Len(seq) : seq[i] = x}) - 1
    ELSE -1

(* String.prototype.localeCompare on the titles in use: their place in *)
(* the collation order.                                                 *)
TitleOrder ==
    <<"A", "B", "C", "D", "My Computer", "My Documents", "Recycle Bin", "Run...",
      "Settings", "Shut Down...", "Z">>

localeCompare(a, b) == indexOf(TitleOrder, a) - indexOf(TitleOrder, b)

(* this.apps.has(id) *)
hasApp(r, id) == \E i \in 1..Len(r) : r[i].id = id

(* register that overwrites an existing definition (Map.set keeps the key's place). *)
register_overwrite(r, app) ==
    IF hasApp(r, app.id)
    THEN [i \in 1..Len(r) |-> IF r[i].id = app.id THEN app ELSE r[i]]
    ELSE Append(r, app)

register(r, app) == IF hasApp(r, app.id) THEN r ELSE Append(r, app)

RECURSIVE registerAll(_, _)
registerAll(r, list) ==
    IF list = <<>> THEN r ELSE registerAll(register(r, Head(list)), Tail(list))

getApp(r, id) == r[CHOOSE i \in 1..Len(r) : r[i].id = id]

listApps(r) == r

(* The comparator of sortByStartMenuOrder *)
compareApps(a, b) ==
    LET groupA == IF a.startMenuGroup # NoGroup
                  THEN indexOf(START_MENU_ORDER, a.startMenuGroup)
                  ELSE Len(START_MENU_ORDER)
        groupB == IF b.startMenuGroup # NoGroup
                  THEN indexOf(START_MENU_ORDER, b.startMenuGroup)
                  ELSE Len(START_MENU_ORDER)
    IN  IF groupA # groupB THEN groupA - groupB ELSE localeCompare(a.title, b.title)

(* Array.prototype.sort is stable: an element goes after those that do not *)
(* compare greater than it.                                                *)
RECURSIVE insertSorted(_, _)
insertSorted(sorted, x) ==
    IF sorted = <<>> THEN <<x>>
    ELSE IF compareApps(Head(sorted), x) <= 0
         THEN <<Head(sorted)>> \o insertSorted(Tail(sorted), x)
         ELSE <<x>> \o sorted

RECURSIVE sortFrom(_, _)
sortFrom(sorted, rest) ==
    IF rest = <<>> THEN sorted
    ELSE sortFrom(insertSorted(sorted, Head(rest)), Tail(rest))

(* A sort that does nothing. *)
sortByStartMenuOrder_unsorted(list) == list

sortByStartMenuOrder(list) == sortFrom(<<>>, list)

HasGroup(a) == a.startMenuGroup # NoGroup

OnDesktop(a) == a.showOnDesktop

(* getStartMenuApps sorting the registry's own array. *)
getStartMenuApps_inPlace(r) ==
    [apps |-> sortByStartMenuOrder(r),
     result |-> SelectSeq(sortByStartMenuOrder(r), HasGroup)]

(* listApps gives a new array and filter another; the sort reorders that *)
(* one.  The result, with the registry as the call leaves it.            *)
getStartMenuApps(r) ==
    [apps |-> r, result |-> sortByStartMenuOrder(SelectSeq(listApps(r), HasGroup))]

getDesktopApps(r) == SelectSeq(listApps(r), OnDesktop)

(* launch that takes the first registered app when the id is unknown. *)
launch_fallback(r, id) ==
    LET app == IF hasApp(r, id) THEN getApp(r, id) ELSE r[1]
    IN  [id |-> id, phase |-> "awaiting", ret |-> FALSE, awaited |-> "value",
         config |-> [id |-> app.windowId, title |-> app.windowTitle]]

(* launch(id) up to its await: the invocation with the state of its        *)
(* promise.  An unknown id resolves false; a launch function that throws   *)
(* rejects the promise of the async function; otherwise the invocation is  *)
(* suspended on what the launch function returned.                         *)
launch(r, id) ==
    IF ~hasApp(r, id)
    THEN [id |-> id, phase |-> "resolved", ret |-> FALSE, awaited |-> "none",
          config |-> [id |-> "", title |-> ""]]
    ELSE LET app == getApp(r, id)
         IN  [id |-> id,
              phase |-> IF app.factory = "throws" THEN "rejected" ELSE "awaiting",
              ret |-> FALSE,
              awaited |-> CASE app.factory \in {"returns", "resolves"} -> "value"
                            [] app.factory = "rejects" -> "rejection"
                            [] app.factory = "hangs"   -> "never"
                            [] OTHER                   -> "none",
              config |-> [id |-> app.windowId, title |-> app.windowTitle]]

(* launch after its await, on the WindowManager: createWindow(config) when *)
(* the awaited value arrived; nothing when the await threw.                *)
launch_resume(s, task) ==
    IF task.awaited = "value" THEN createWindow(s, task.config) ELSE s

(* The invocation once resumed: resolved true, or rejected. *)
launch_settle(task) ==
    IF task.awaited = "value"
    THEN [task EXCEPT !.phase = "resolved", !.ret = TRUE]
    ELSE [task EXCEPT !.phase = "rejected"]

-----------------------------------------------------------------------------
(* Specification *)

InitDesktop ==
    /\ windows = <<>>
    /\ windowCounter = 0
    /\ winbox = EmptyMap
    /\ stack_win = <<>>
    /\ taskbarItems = EmptyMap
    /\ programButtons = <<>>
    /\ emitted = <<>>
    /\ opened = {}
    /\ calls = <<>>
    /\ last = [op |-> "init", arg |-> "", ret |-> TRUE]
    /\ isStartMenuOpen = FALSE
    /\ startMenuDisplay = "none"
    /\ startButtonActive = FALSE
    /\ clockInterval = TRUE
    /\ clockTime = NewDesktop.clockTime
    /\ tooltipDate = NewDesktop.tooltipDate
    /\ icons = DefaultIcons
    /\ selectedIcon = Null
    /\ mounted = TRUE
    /\ zombies = <<>>
    /\ handlers = 0
    /\ positions = EmptyMap

(* The Desktop constructs no AppRegistry. *)
Init ==
    /\ InitDesktop
    /\ apps = <<>>
    /\ registered = <<>>
    /\ listing = [startMenu |-> <<>>, desktop |-> <<>>]
    /\ tasks = <<>>

(* The state a handler starts from: nothing emitted or called yet. *)
Start ==
    [windows |-> windows, windowCounter |-> windowCounter, winbox |-> winbox,
     stack_win |-> stack_win, taskbarItems |-> taskbarItems,
     programButtons |-> programButtons, emitted |-> <<>>, opened |-> opened,
     calls |-> <<>>, ret |-> TRUE,
     isStartMenuOpen |-> isStartMenuOpen, startMenuDisplay |-> startMenuDisplay,
     startButtonActive |-> startButtonActive, clockInterval |-> clockInterval,
     clockTime |-> clockTime, tooltipDate |-> tooltipDate,
     icons |-> icons, selectedIcon |-> selectedIcon]

(* The handler's result becomes the state of the mounted Desktop. *)
CommitCore(op, arg, result) ==
    \E s \in {result} :
        /\ windows' = s.windows
        /\ windowCounter' = s.windowCounter
        /\ winbox' = s.winbox
        /\ stack_win' = s.stack_win
        /\ taskbarItems' = s.taskbarItems
        /\ programButtons' = s.programButtons
        /\ emitted' = s.emitted
        /\ opened' = s.opened
        /\ calls' = s.calls
        /\ last' = [op |-> op, arg |-> arg, ret |-> s.ret]
        /\ isStartMenuOpen' = s.isStartMenuOpen
        /\ startMenuDisplay' = s.startMenuDisplay
        /\ startButtonActive' = s.startButtonActive
        /\ clockInterval' = s.clockInterval
        /\ clockTime' = s.clockTime
        /\ tooltipDate' = s.tooltipDate
        /\ icons' = s.icons
        /\ selectedIcon' = s.selectedIcon

(* A handler of the Desktop, its Taskbar or its WindowManager. *)
CommitDesktop(op, arg, s) ==
    /\ CommitCore(op, arg, s)
    /\ UNCHANGED <<apps, registered, listing, tasks, positions>>

(* A handler of the one mounted Desktop; no Desktop was destroyed before. *)
Commit(op, arg, s) ==
    /\ CommitDesktop(op, arg, s)
    /\ handlers' = 1
    /\ UNCHANGED <<mounted, zombies>>

CreateWindow(cid) ==
    /\ cid = "" => windowCounter < MaxCounter
    /\ Commit("createWindow", cid, createWindow(Start, [id |-> cid, title |-> TitleOf(cid)]))

CloseWindow(id) ==
    /\ id \in AllIds
    /\ Commit("closeWindow", id, closeWindow(Start, id))

MinimizeWindow(id) ==
    /\ id \in AllIds
    /\ Commit("minimizeWindow", id, minimizeWindow(Start, id))

MaximizeWindow(id) ==
    /\ id \in AllIds
    /\ Commit("maximizeWindow", id, maximizeWindow(Start, id))

RestoreWindow(id) ==
    /\ id \in AllIds
    /\ Commit("restoreWindow", id, restoreWindow(Start, id))

FocusWindow(id) ==
    /\ id \in AllIds
    /\ Commit("focusWindow", id, focusWindow(Start, id))

ToggleMinimize(id) ==
    /\ id \in AllIds
    /\ Commit("toggleMinimize", id, toggleMinimize(Start, id))

CloseAllWindows ==
    /\ windows \in Seq(AllIds)
    /\ Commit("closeAllWindows", "", closeAllWindows(Start))

(* A click on the i-th program button of the taskbar. *)
TaskbarProgramClick(i) ==
    /\ i \in 1..Len(programButtons)
    /\ Commit("taskbar-click", programButtons[i].windowId,
           [dispatchEvent(Start, "taskbar-click", programButtons[i].windowId)
               EXCEPT !.ret = TRUE])

(* An action intent on the menu-action channel. *)
MenuAction(action) ==
    /\ action \in MenuActions
    /\ Commit("menu-action", action,
           [dispatchEvent(Start, "menu-action", action) EXCEPT !.ret = TRUE])

(* The Cancel button of the Shut Down dialog: it exists while the dialog's  *)
(* window does and dispatches 'close-window' with the dialog's id.          *)
CloseWindowRequest(id) ==
    /\ id = "shutdown-dialog"
    /\ id \in DOMAIN winbox
    /\ Commit("close-window", id, [dispatchEvent(Start, "close-window", id) EXCEPT !.ret = TRUE])

Next ==
    \/ \E cid \in ConfigIds \cup {""} : CreateWindow(cid)
    \/ \E id \in AllIds : CloseWindow(id)
    \/ \E id \in AllIds : MinimizeWindow(id)
    \/ \E id \in AllIds : MaximizeWindow(id)
    \/ \E id \in AllIds : RestoreWindow(id)
    \/ \E id \in AllIds : FocusWindow(id)
    \/ \E id \in AllIds : ToggleMinimize(id)
    \/ CloseAllWindows
    \/ \E i \in 1..Len(programButtons) : TaskbarProgramClick(i)
    \/ \E action \in MenuActions : MenuAction(action)
    \/ \E id \in AllIds : CloseWindowRequest(id)

Spec == Init /\ [][Next]_vars

-----------------------------------------------------------------------------
(* Mounting and unmounting the Desktop (main.ts init and cleanup).  Every   *)
(* Desktop ever constructed registered its listeners on the one document;   *)
(* a document event runs the listeners in the order of registration.  Each  *)
(* Desktop has its own WindowManager and Taskbar, kept here as one record.  *)

MaxMounts == 1

KeyEvents ==
    { [key |-> k, ctrlKey |-> FALSE] : k \in {"Meta", "Enter", "Escape", "Delete"} }
        \cup { [key |-> "Escape", ctrlKey |-> TRUE] }

ClickableIcons == {"recycle-bin"}

(* A listener starts with nothing emitted or called. *)
Fresh(z) == [z EXCEPT !.emitted = <<>>, !.calls = <<>>, !.ret = TRUE]

(* The event reaches the listeners of the destroyed Desktops, then those *)
(* of the mounted one.                                                    *)
DocumentEvent(type, arg, detail) ==
    /\ zombies' = [i \in 1..Len(zombies) |->
                        dispatchEvent(Fresh(zombies[i]), type, detail)]
    /\ CommitDesktop(type, arg,
                     IF mounted THEN dispatchEvent(Start, type, detail) ELSE Start)
    /\ handlers' = Len(zombies) + (IF mounted THEN 1 ELSE 0)
    /\ UNCHANGED mounted

(* main.ts init: state.desktop = new Desktop() *)
MainInit ==
    /\ ~mounted
    /\ CommitDesktop("init", "", NewDesktop)
    /\ mounted' = TRUE
    /\ handlers' = 0
    /\ UNCHANGED zombies

(* main.ts cleanup: state.desktop.destroy(); state.desktop = null *)
Cleanup ==
    /\ mounted
    /\ Len(zombies) < MaxMounts
    /\ LET d == Desktop_destroy(Start)
       IN  /\ CommitDesktop("destroy", "", d)
           /\ zombies' = Append(zombies, d)
    /\ mounted' = FALSE
    /\ handlers' = 0

(* A start-menu selection: Taskbar.handleMenuAction dispatches 'menu-action'. *)
DocMenuAction(action) ==
    /\ mounted
    /\ DocumentEvent("menu-action", action, action)

(* A click on a taskbar button of any Desktop dispatches 'taskbar-click'. *)
DocTaskbarClick(id) ==
    /\ \/ mounted /\ \E i \in 1..Len(programButtons) : programButtons[i].windowId = id
       \/ \E k \in 1..Len(zombies) : \E i \in 1..Len(zombies[k].programButtons) :
              zombies[k].programButtons[i].windowId = id
    /\ DocumentEvent("taskbar-click", id, id)

DocKeydown(e) ==
    /\ e \in KeyEvents
    /\ DocumentEvent("keydown", e.key, e)

(* A click on a desktop icon of the mounted Desktop. *)
IconClick(id) ==
    /\ mounted
    /\ id \in DOMAIN icons
    /\ CommitDesktop("icon-click", id, selectIcon(Start, id))
    /\ handlers' = 1
    /\ UNCHANGED <<mounted, zombies>>

NextMount ==
    \/ MainInit
    \/ Cleanup
    \/ \E action \in MenuActions : DocMenuAction(action)
    \/ \E id \in {"shutdown-dialog"} \cup ClickableIcons : DocTaskbarClick(id)
    \/ \E e \in KeyEvents : DocKeydown(e)
    \/ \E id \in ClickableIcons : IconClick(id)

SpecMount == Init /\ [][NextMount]_vars

-----------------------------------------------------------------------------
(* The clock: the interval set by Taskbar.setupClock calls updateClock  *)
(* as long as it has not been cleared.  Taskbar 0 is the mounted        *)
(* Desktop's, Taskbar k > 0 that of the k-th destroyed Desktop.         *)

ClockTick(k, now, reads) ==
    /\ k \in 0..MaxMounts
    /\ IF k = 0 THEN mounted /\ clockInterval
                ELSE k <= Len(zombies) /\ zombies[k].clockInterval
    /\ CommitDesktop("updateClock", [taskbar |-> k, now |-> now, reads |-> reads],
                     IF k = 0 THEN updateClock(Start, now, reads) ELSE Start)
    /\ zombies' = [i \in 1..Len(zombies) |->
                        IF i = k THEN updateClock(Fresh(zombies[i]), now, reads)
                                 ELSE zombies[i]]
    /\ handlers' = 1
    /\ UNCHANGED mounted

NextClock ==
    \/ MainInit
    \/ Cleanup
    \/ \E k \in 0..MaxMounts, now \in Instants, reads \in ReadOutcomes :
           ClockTick(k, now, reads)
    \/ \E action \in {"shutdown"} : DocMenuAction(action)

SpecClock == Init /\ [][NextClock]_vars

-----------------------------------------------------------------------------
(* Launching through an AppRegistry that serves the Desktop's WindowManager, *)
(* with the core apps registered and four more whose launch functions are    *)
(* asynchronous, never complete, or fail.                                    *)

MaxTasks == 2

ExtraApps ==
    << [defineApp("clock", "C", "secondary", FALSE, "clock", "Clock")
            EXCEPT !.factory = "resolves"],
       [defineApp("slow", "D", NoGroup, FALSE, "slow", "Slow")
            EXCEPT !.factory = "hangs"],
       [defineApp("broken", "B", NoGroup, FALSE, "broken", "Broken")
            EXCEPT !.factory = "throws"],
       [defineApp("flaky", "A", NoGroup, FALSE, "flaky", "Flaky")
            EXCEPT !.factory = "rejects"] >>

LaunchIds == {"shutdown", "clock", "slow", "broken", "flaky", "no-such-app"}

InitLaunch ==
    /\ InitDesktop
    /\ apps = registerAll(registerAll(<<>>, coreApps), ExtraApps)
    /\ registered = apps
    /\ listing = [startMenu |-> <<>>, desktop |-> <<>>]
    /\ tasks = <<>>

(* A call of AppRegistry.launch(id), up to its await. *)
Launch(id) ==
    /\ Len(tasks) < MaxTasks
    /\ tasks' = Append(tasks, launch(apps, id))
    /\ CommitCore("launch", id, Start)
    /\ UNCHANGED <<apps, registered, listing, mounted, zombies, handlers, positions>>

(* Continuations run in the order of the calls, one launch at a time. *)
CanResume_inOrder(k) ==
    /\ k \in 1..Len(tasks)
    /\ tasks[k].phase = "awaiting"
    /\ tasks[k].awaited \in {"value", "rejection"}
    /\ \A j \in 1..(k - 1) : tasks[j].phase # "awaiting"

(* The k-th invocation can continue: it is suspended at its await and what *)
(* it awaits settles.  Each invocation is its own async call; nothing in   *)
(* launch refers to another invocation.                                    *)
CanResume(k) ==
    /\ k \in 1..Len(tasks)
    /\ tasks[k].phase = "awaiting"
    /\ tasks[k].awaited \in {"value", "rejection"}

(* The continuation of the k-th invocation, once what it awaits settled. *)
Resume(k) ==
    /\ CanResume(k)
    /\ CommitCore("resume", tasks[k].id, launch_resume(Start, tasks[k]))
    /\ tasks' = [tasks EXCEPT ![k] = launch_settle(tasks[k])]
    /\ UNCHANGED <<apps, registered, listing, mounted, zombies, handlers, positions>>

NextLaunch ==
    \/ \E id \in LaunchIds : Launch(id)
    \/ \E k \in 1..MaxTasks : Resume(k)
    \/ \E action \in MenuActions : MenuAction(action)
    \/ \E id \in {"shutdown-dialog", "clock"} : CloseWindow(id)

SpecLaunch == InitLaunch /\ [][NextLaunch]_vars

-----------------------------------------------------------------------------
(* Launches around the teardown: the AppRegistry keeps the WindowManager  *)
(* it was constructed with, also after Desktop.destroy() has destroyed it. *)

NextTeardown ==
    \/ \E id \in LaunchIds : Launch(id)
    \/ \E k \in 1..MaxTasks : Resume(k)
    \/ \E id \in {"shutdown-dialog", "clock"} : CloseWindow(id)
    \/ Cleanup

SpecTeardown == InitLaunch /\ [][NextTeardown]_vars

-----------------------------------------------------------------------------
(* The registry on its own: registrations from a catalogue of definitions, *)
(* two of them under the same id and two with the same group and title,    *)
(* and the two listings.                                                   *)

MaxApps == 3

Catalogue ==
    { defineApp("a", "A", "secondary", TRUE, "a", "A"),
      defineApp("a", "Z", "power", FALSE, "a", "Z"),
      defineApp("b", "B", "primary", FALSE, "b", "B"),
      defineApp("b2", "B", "primary", TRUE, "b2", "B"),
      defineApp("c", "C", "primary", TRUE, "c", "C"),
      defineApp("d", "D", NoGroup, TRUE, "d", "D") }

(* The definition as its first registration under its id gave it. *)
Remember(app) ==
    IF \E i \in 1..Len(registered) : registered[i].id = app.id
    THEN registered ELSE Append(registered, app)

RegistryStep(op, arg) ==
    /\ last' = [op |-> op, arg |-> arg, ret |-> TRUE]
    /\ UNCHANGED <<windows, windowCounter, winbox, stack_win, taskbarItems,
                   programButtons, emitted, opened, calls,
                   isStartMenuOpen, startMenuDisplay, startButtonActive,
                   clockInterval, clockTime, tooltipDate, icons, selectedIcon,
                   mounted, zombies, handlers, tasks, positions>>

Register(app) ==
    /\ hasApp(apps, app.id) \/ Len(apps) < MaxApps
    /\ apps' = register(apps, app)
    /\ registered' = Remember(app)
    /\ RegistryStep("register", app)
    /\ UNCHANGED listing

(* registerAll([app1, app2]) *)
RegisterAll(app1, app2) ==
    /\ Len(apps) + 2 <= MaxApps
    /\ apps' = registerAll(apps, <<app1, app2>>)
    /\ registered' = LET r1 == Remember(app1)
                     IN  IF \E i \in 1..Len(r1) : r1[i].id = app2.id
                         THEN r1 ELSE Append(r1, app2)
    /\ RegistryStep("registerAll", <<app1, app2>>)
    /\ UNCHANGED listing

GetStartMenuApps ==
    /\ apps' = getStartMenuApps(apps).apps
    /\ listing' = [listing EXCEPT !.startMenu = getStartMenuApps(apps).result]
    /\ RegistryStep("getStartMenuApps", "")
    /\ UNCHANGED registered

GetDesktopApps ==
    /\ listing' = [listing EXCEPT !.desktop = getDesktopApps(apps)]
    /\ RegistryStep("getDesktopApps", "")
    /\ UNCHANGED <<apps, registered>>

NextRegistry ==
    \/ \E app \in Catalogue : Register(app)
    \/ \E app1, app2 \in Catalogue : RegisterAll(app1, app2)
    \/ GetStartMenuApps
    \/ GetDesktopApps

SpecRegistry == Init /\ [][NextRegistry]_vars

-----------------------------------------------------------------------------
(* The WindowManager's queries among creations, closes and minimizes. *)

QueryIds == AllIds \cup {"no-such-window"}

IsMinimized(id) ==
    /\ id \in QueryIds
    /\ Commit("isMinimized", id, Call_isMinimized(Start, id))

HasWindow(id) ==
    /\ id \in QueryIds
    /\ Commit("hasWindow", id, Call_hasWindow(Start, id))

GetWindow(id) ==
    /\ id \in QueryIds
    /\ Commit("getWindow", id, Call_getWindow(Start, id))

GetWindowIds ==
    /\ windows \in Seq(AllIds)
    /\ Commit("getWindowIds", "", Call_getWindowIds(Start))

NextQuery ==
    \/ \E cid \in ConfigIds \cup {""} : CreateWindow(cid)
    \/ \E action \in MenuActions : MenuAction(action)
    \/ \E id \in AllIds : CloseWindow(id)
    \/ \E id \in AllIds : MinimizeWindow(id)
    \/ \E id \in QueryIds : IsMinimized(id)
    \/ \E id \in QueryIds : HasWindow(id)
    \/ \E id \in QueryIds : GetWindow(id)
    \/ GetWindowIds

SpecQuery == Init /\ [][NextQuery]_vars

-----------------------------------------------------------------------------
(* Creations without x and y, and closes, with the position the engine is *)
(* given for each new window.                                              *)

CascadeIds == {"window-1", "window-2", "window-3"}

CascadeCreate(cid) ==
    /\ cid \in CascadeIds
    /\ LET made == createWindow(Start, [id |-> cid, title |-> TitleOf(cid)])
       IN  /\ CommitCore("createWindow", cid, made)
           /\ positions' = IF made.ret.fresh
                            THEN MapSet(positions, cid, defaultPosition(Start))
                            ELSE positions
    /\ UNCHANGED <<apps, registered, listing, tasks, mounted, zombies, handlers>>

CascadeClose(id) ==
    /\ Contains(windows, id)
    /\ CommitCore("closeWindow", id, closeWindow(Start, id))
    /\ positions' = MapDelete(positions, id)
    /\ UNCHANGED <<apps, registered, listing, tasks, mounted, zombies, handlers>>

NextCascade ==
    \/ \E cid \in CascadeIds : CascadeCreate(cid)
    \/ \E id \in CascadeIds : CascadeClose(id)

SpecCascade == Init /\ [][NextCascade]_vars

-----------------------------------------------------------------------------
(* The Desktop under the mouse and the keyboard: clicks on the start       *)
(* button, the menu, icons, empty desktop, taskbar buttons and windows,    *)
(* double clicks on icons, keys, and the Taskbar's start-menu operations.  *)

UiIcons == {"my-computer", "recycle-bin"}

Target(kind, id) == [kind |-> kind, id |-> id, throws |-> FALSE]

(* A menu item whose action makes the Desktop's listener throw. *)
Throwing(target) == [target EXCEPT !.throws = TRUE]

(* What there is to click on in the present state. *)
ClickTargets ==
    {Target("start-button", ""), Target("desktop", "")}
        \cup {Target("icon", id) : id \in UiIcons \cap DOMAIN icons}
        \cup {Target("taskbar-program", programButtons[i].windowId) :
                  i \in 1..Len(programButtons)}
        \cup {Target("window", stack_win[i]) : i \in 1..Len(stack_win)}
        \cup (IF isStartMenuOpen
              THEN {Target("menu", "")}
                       \cup {Target("menu-item", a) : a \in MenuActions}
                       \cup {Throwing(Target("menu-item", a)) : a \in MenuActions}
              ELSE {})

AllTargets ==
    {Target(kind, "") : kind \in {"start-button", "desktop", "menu"}}
        \cup {Target("icon", id) : id \in UiIcons}
        \cup {Target(kind, id) : kind \in {"taskbar-program", "window"},
                                   id \in AllIds \cup UiIcons}
        \cup {Target("menu-item", a) : a \in MenuActions}
        \cup {Throwing(Target("menu-item", a)) : a \in MenuActions}

Click(target) ==
    /\ target \in ClickTargets
    /\ Commit("click", target, click(Start, target))

DblClick(id) ==
    /\ id \in UiIcons \cap DOMAIN icons
    /\ Commit("dblclick", id, dblclick(Start, id))

OpenStartMenu ==
    /\ mounted
    /\ Commit("openStartMenu", "", openStartMenu(Start))

CloseStartMenu ==
    /\ mounted
    /\ Commit("closeStartMenu", "", closeStartMenu(Start))

ToggleStartMenu ==
    /\ mounted
    /\ Commit("toggleStartMenu", "", toggleStartMenu(Start))

NextUi ==
    \/ \E target \in AllTargets : Click(target)
    \/ \E id \in UiIcons : DblClick(id)
    \/ \E e \in KeyEvents : DocKeydown(e)
    \/ \E action \in {"recycle-bin"} : DocMenuAction(action)
    \/ OpenStartMenu
    \/ CloseStartMenu
    \/ ToggleStartMenu

SpecUi == Init /\ [][NextUi]_vars

-----------------------------------------------------------------------------
(* Icons added and removed, beside clicks on icons and on empty desktop *)
(* and keys.  An icon is added under an id no present icon has.         *)

AddIcon(id) ==
    /\ id \in UiIcons \ DOMAIN icons
    /\ Commit("addIcon", id, addIcon(Start, [id |-> id, action |-> id]))

RemoveIcon(id) ==
    /\ id \in UiIcons
    /\ Commit("removeIcon", id, removeIcon(Start, id))

NextIcons ==
    \/ \E id \in UiIcons : AddIcon(id)
    \/ \E id \in UiIcons : RemoveIcon(id)
    \/ \E target \in {Target("desktop", "")} \cup {Target("icon", id) : id \in UiIcons} :
           Click(target)
    \/ \E e \in KeyEvents : DocKeydown(e)

SpecIcons == Init /\ [][NextIcons]_vars

-----------------------------------------------------------------------------
(* The Taskbar's program list called directly, beside the window         *)
(* operations that call it through the Desktop.                          *)

ProgramTitles == {"Kiosk", "Renamed"}

RemoveProgram(id) ==
    /\ id \in QueryIds
    /\ Commit("removeProgram", [id |-> id], removeProgram(Start, id))

SetActiveProgram(id, active) ==
    /\ id \in QueryIds
    /\ Commit("setActiveProgram", [id |-> id, active |-> active],
              setActiveProgram(Start, id, active))

UpdateProgramTitle(id, title) ==
    /\ id \in QueryIds
    /\ Commit("updateProgramTitle", [id |-> id, title |-> title],
              updateProgramTitle(Start, id, title))

NextTaskbar ==
    \/ \E cid \in ConfigIds : CreateWindow(cid)
    \/ \E action \in {"shutdown"} : MenuAction(action)
    \/ \E id \in AllIds : CloseWindow(id)
    \/ \E id \in QueryIds : RemoveProgram(id)
    \/ \E id \in QueryIds, active \in BOOLEAN : SetActiveProgram(id, active)
    \/ \E id \in QueryIds, title \in ProgramTitles : UpdateProgramTitle(id, title)

SpecTaskbar == Init /\ [][NextTaskbar]_vars

-----------------------------------------------------------------------------
(* Vocabulary of the properties *)

IdsOf(seq) == {seq[i] : i \in 1..Len(seq)}

LiveIds == IdsOf(windows)

CountEvents(seq, type, id) ==
    Cardinality({i \in 1..Len(seq) : seq[i].type = type /\ seq[i].windowId = id})

ButtonsFor(id) == {i \in 1..Len(programButtons) : programButtons[i].id = id}

(* The five operations that ask the engine for one transition, and the     *)
(* lifecycle event each stands for.                                        *)
TransitionOps ==
    {"closeWindow", "minimizeWindow", "maximizeWindow", "restoreWindow", "focusWindow"}

IdOps == TransitionOps \cup {"toggleMinimize"}

KindOf(op) ==
    CASE op = "closeWindow"    -> "close"
      [] op = "minimizeWindow" -> "minimize"
      [] op = "maximizeWindow" -> "maximize"
      [] op = "restoreWindow"  -> "restore"
      [] op = "focusWindow"    -> "focus"

CoreUnchanged ==
    /\ windows' = windows
    /\ windowCounter' = windowCounter
    /\ winbox' = winbox
    /\ stack_win' = stack_win
    /\ taskbarItems' = taskbarItems
    /\ programButtons' = programButtons

-----------------------------------------------------------------------------
(* C1: when a handler has returned, the ids of the taskbar items are       *)
(* exactly the ids of the live windows, and each live window has exactly   *)
(* one program button.                                                     *)
C1_TaskbarMirrorsWindows ==
    /\ DOMAIN taskbarItems = LiveIds
    /\ \A id \in LiveIds : Cardinality(ButtonsFor(id)) = 1
    /\ \A i \in 1..Len(programButtons) : programButtons[i].id \in LiveIds

(* A window was closed while another stays open. *)
C1_Witness ==
    /\ last.op = "closeWindow"
    /\ last.ret = TRUE
    /\ Len(windows) = 1
    /\ DOMAIN taskbarItems = LiveIds

C2_CreateExistingStep ==
    (/\ last'.op = "createWindow"
     /\ calls'[1].id \in LiveIds)
    => /\ windows' = windows
       /\ DOMAIN winbox' = DOMAIN winbox
       /\ CountEvents(emitted', "open", calls'[1].id) = 0
       /\ last'.ret = [id |-> calls'[1].id, fresh |-> FALSE]
       /\ winbox'[calls'[1].id].focused

(* C2: createWindow with the id of a live window creates nothing: the map  *)
(* is unchanged, no open event is emitted, the instance returned is the    *)
(* existing one and that window is focused.                                *)
C2_CreateExistingIsFocus == [][C2_CreateExistingStep]_vars

(* createWindow on a live window that another window had taken focus from. *)
C2_Witness ==
    /\ last.op = "createWindow"
    /\ last.ret.fresh = FALSE
    /\ Len(windows) = 2
    /\ CountEvents(emitted, "focus", last.ret.id) = 1

(* C3: every close event is delivered after the window left the live map:  *)
(* hasWindow(id) answers false inside the close handler.                   *)
C3_CloseSeesWindowGone ==
    \A i \in 1..Len(emitted) : emitted[i].type = "close" => ~emitted[i].live

C4_CloseAllStep ==
    last'.op = "closeAllWindows"
    => /\ \A id \in LiveIds : CountEvents(emitted', "close", id) = 1
       /\ \A id \in AllIds \ LiveIds : CountEvents(emitted', "close", id) = 0
       /\ windows' = <<>>
       /\ DOMAIN taskbarItems' \cap LiveIds = {}
       /\ \A i \in 1..Len(programButtons') : programButtons'[i].id \notin LiveIds

(* C4: closeAllWindows emits exactly one close event for each window that  *)
(* was live and none for any other id, and leaves the live map empty and   *)
(* the taskbar without an entry for any of them.                           *)
C4_CloseAllClosesEach == [][C4_CloseAllStep]_vars

(* closeAllWindows has closed two windows. *)
C4_Witness ==
    /\ last.op = "closeAllWindows"
    /\ Cardinality({i \in 1..Len(emitted) : emitted[i].type = "close"}) = 2
    /\ windows = <<>>

(* C5: for each id the open event comes first and the close event last:    *)
(* an open event is delivered only when the id is not open, every other    *)
(* event only between the id's open event and its close event.             *)
C5_OpenFirstCloseLast ==
    \A i \in 1..Len(emitted) : (emitted[i].type = "open") = ~emitted[i].afterOpen

C6_UnknownIdStep ==
    (/\ last'.op \in IdOps
     /\ last'.arg \notin LiveIds)
    => /\ last'.ret = FALSE
       /\ emitted' = <<>>
       /\ opened' = opened
       /\ CoreUnchanged

(* C6: the six id operations on an id that is not live return false, emit  *)
(* nothing and change neither windows nor taskbar.                         *)
C6_UnknownIdIsNoOp == [][C6_UnknownIdStep]_vars

(* An operation was refused while another window is open. *)
C6_Witness ==
    /\ last.op \in IdOps
    /\ last.ret = FALSE
    /\ Len(windows) >= 1
    /\ emitted = <<>>

C7_ExactlyOneStep ==
    (/\ last'.op \in TransitionOps
     /\ last'.arg \in LiveIds)
    => /\ last'.ret = TRUE
       /\ CountEvents(emitted', KindOf(last'.op), last'.arg) = 1

(* C7 as stated: on a live id each of the five operations returns true and *)
(* emits exactly one event of its kind for that id, whatever the state.    *)
C7_ExactlyOneEventPerCall == [][C7_ExactlyOneStep]_vars

(* Whether the engine has a transition to make for the operation. *)
NeedsTransition(op, w) ==
    CASE op = "closeWindow"    -> TRUE
      [] op = "minimizeWindow" -> ~w.min
      [] op = "maximizeWindow" -> ~w.max
      [] op = "restoreWindow"  -> w.min \/ w.max
      [] op = "focusWindow"    -> ~w.focused

C7_OneEventPerTransitionStep ==
    (/\ last'.op \in TransitionOps
     /\ last'.arg \in LiveIds)
    => /\ last'.ret = TRUE
       /\ CountEvents(emitted', KindOf(last'.op), last'.arg) =
              IF NeedsTransition(last'.op, winbox[last'.arg]) THEN 1 ELSE 0

(* C7 as amended: on a live id each of the five operations returns true    *)
(* and emits one event of its kind for that id when the window is not      *)
(* already in the state asked for, and none when it is.                    *)
C7_OneEventPerTransition == [][C7_OneEventPerTransitionStep]_vars

(* A restore of a minimized window while another window is open. *)
C7_Witness ==
    /\ last.op = "restoreWindow"
    /\ last.ret = TRUE
    /\ CountEvents(emitted, "restore", last.arg) = 1
    /\ Len(windows) = 2

C8_ClickMinimizedStep ==
    (/\ last'.op = "taskbar-click"
     /\ last'.arg \in LiveIds
     /\ winbox[last'.arg].min)
    => /\ calls' = << [op |-> "restoreWindow", id |-> last'.arg],
                      [op |-> "focusWindow", id |-> last'.arg] >>
       /\ ~winbox'[last'.arg].min
       /\ winbox'[last'.arg].focused
       /\ taskbarItems'[last'.arg].active
       /\ \A i \in ButtonsFor(last'.arg) : programButtons'[i].active

(* C8: a click on the program button of a minimized window calls restore   *)
(* and then focus, and leaves the window not minimized and focused with    *)
(* its taskbar item active.                                                *)
C8_ClickRestoresThenFocuses == [][C8_ClickMinimizedStep]_vars

(* The click restored a minimized window and took focus from another one. *)
C8_Witness ==
    /\ last.op = "taskbar-click"
    /\ Len(calls) = 2
    /\ calls[1].op = "restoreWindow"
    /\ CountEvents(emitted, "restore", last.arg) = 1
    /\ CountEvents(emitted, "focus", last.arg) = 1
    /\ \E i \in 1..Len(emitted) : emitted[i].type = "blur"

C9_ClickFocusedStep ==
    (/\ last'.op = "taskbar-click"
     /\ last'.arg \in LiveIds
     /\ winbox[last'.arg].focused
     /\ ~winbox[last'.arg].min)
    => /\ emitted' = <<>>
       /\ opened' = opened
       /\ CoreUnchanged

(* C9: a click on the program button of a window that is focused and not   *)
(* minimized emits no event and changes neither windows nor taskbar.       *)
C9_ClickFocusedIsIdempotent == [][C9_ClickFocusedStep]_vars

(* The click came on a focused, maximized window next to another window. *)
C9_Witness ==
    /\ last.op = "taskbar-click"
    /\ emitted = <<>>
    /\ calls = << [op |-> "focusWindow", id |-> last.arg] >>
    /\ winbox[last.arg].focused
    /\ winbox[last.arg].max
    /\ Len(windows) = 2

(* C10: once a close-window request for a live window has been dispatched, *)
(* the window is closed and its taskbar item is gone.                      *)
C10_CloseRequestCloses ==
    last.op = "close-window"
    => /\ last.arg \notin LiveIds
       /\ last.arg \notin DOMAIN taskbarItems


-----------------------------------------------------------------------------
(* Mount / unmount *)

DocEvents == {"menu-action", "taskbar-click", "keydown"}

(* The windows the last document event created, over all Desktops. *)
WindowsCreated ==
    Cardinality({i \in 1..Len(emitted) : emitted[i].type = "open"})
    + Cardinality({p \in (1..Len(zombies)) \X (1..4) :
                     /\ p[2] <= Len(zombies[p[1]].emitted)
                     /\ zombies[p[1]].emitted[p[2]].type = "open"})

(* C11: after Desktop.destroy() a menu-action, taskbar-click or keydown     *)
(* event runs no listener of a destroyed Desktop: the listeners that ran    *)
(* are those of the mounted Desktop only, and one event creates at most one *)
(* window.                                                                  *)
C11_DestroyRemovesListeners ==
    last.op \in DocEvents =>
        /\ handlers = (IF mounted THEN 1 ELSE 0)
        /\ WindowsCreated <= 1

-----------------------------------------------------------------------------
(* Action intents and the registry *)

ActionIds ==
    {"my-computer", "my-documents", "settings", "run", "shutdown", "recycle-bin",
     "no-such-action"}

(* AppRegistry.launch(id) run to completion on state s: the call, then its *)
(* continuation if it is suspended on something that settles.              *)
LaunchToCompletion(s, r, id) ==
    LET task == launch(r, id)
    IN  IF task.phase = "awaiting" /\ task.awaited # "never"
        THEN launch_resume(s, task) ELSE s

SameWindows(s1, s2) ==
    /\ s1.windows = s2.windows
    /\ s1.winbox = s2.winbox
    /\ s1.stack_win = s2.stack_win

(* C12: for every action id, the Desktop handling the intent and           *)
(* AppRegistry.launch of that id with the core apps registered leave the   *)
(* same live windows: the same window opened, or focused if it was open,   *)
(* or none for an id that names nothing.                                   *)
C12_DesktopMatchesRegistry ==
    \A a \in ActionIds :
        SameWindows(handleMenuAction(Start, a),
                    LaunchToCompletion(Start, registerAll(<<>>, coreApps), a))

(* The dialog was opened through the registry and the Desktop's intent *)
(* then focused it.                                                    *)
C12_Witness ==
    /\ last.op = "menu-action" /\ last.arg = "shutdown"
    /\ \E k \in 1..Len(tasks) :
          tasks[k].id = "shutdown" /\ tasks[k].phase = "resolved" /\ tasks[k].ret
    /\ "shutdown-dialog" \in DOMAIN winbox
    /\ \A i \in 1..Len(emitted) : emitted[i].type # "open"

KnownActions ==
    {"my-computer", "my-documents", "settings", "run", "shutdown", "recycle-bin"}

C13_UnknownIntentStep ==
    (last'.op = "menu-action" /\ last'.arg \notin KnownActions) =>
        /\ windows' = windows /\ winbox' = winbox /\ stack_win' = stack_win
        /\ taskbarItems' = taskbarItems /\ programButtons' = programButtons
        /\ selectedIcon' = selectedIcon
        /\ emitted' = <<>> /\ calls' = <<>>

(* C13: an action intent whose identifier names no application or built-in *)
(* command is handled without effect: the live windows, the taskbar items  *)
(* and buttons and the icon selection are unchanged, nothing is emitted    *)
(* and no WindowManager operation is called.                               *)
C13_UnknownIntentIsNoOp == [][C13_UnknownIntentStep]_vars

C13_Witness ==
    /\ last.op = "menu-action" /\ last.arg = "no-such-action"
    /\ mounted /\ windows # <<>> /\ selectedIcon # Null

-----------------------------------------------------------------------------
(* Launching *)

WindowsUnchanged ==
    /\ windows' = windows /\ winbox' = winbox /\ stack_win' = stack_win
    /\ taskbarItems' = taskbarItems /\ programButtons' = programButtons
    /\ windowCounter' = windowCounter /\ opened' = opened

C14_UnknownLaunchStep ==
    (last'.op = "launch" /\ ~hasApp(apps, last'.arg)) =>
        /\ Len(tasks') = Len(tasks) + 1
        /\ LET task == tasks'[Len(tasks')]
           IN  /\ task.id = last'.arg
               /\ task.phase = "resolved" /\ task.ret = FALSE
               /\ task.awaited = "none"
        /\ WindowsUnchanged
        /\ emitted' = <<>> /\ calls' = <<>>

(* C14: launch of an unregistered id resolves false without throwing: the  *)
(* promise is resolved with false at the call, no launch function was      *)
(* called, and the windows and the events are as before.                   *)
C14_UnknownLaunchResolvesFalse == [][C14_UnknownLaunchStep]_vars

C14_Witness ==
    /\ last.op = "launch" /\ last.arg = "no-such-app"
    /\ windows # <<>>
    /\ tasks[Len(tasks)].phase = "resolved"

Suspended(task) == task.phase = "awaiting"

C15_HungStaysOut ==
    \A k \in 1..Len(tasks) :
        tasks[k].awaited = "never" =>
            /\ Suspended(tasks[k])
            /\ ~Contains(windows, tasks[k].config.id)
            /\ tasks[k].config.id \notin opened

C15_ReadyCanResume ==
    \A k \in 1..Len(tasks) :
        (Suspended(tasks[k]) /\ tasks[k].awaited = "value") => CanResume(k)

C15_ResumeStep ==
    \A k \in 1..Len(tasks) :
        (Suspended(tasks[k]) /\ tasks[k].awaited = "value"
            /\ k <= Len(tasks') /\ ~Suspended(tasks'[k])) =>
                /\ tasks'[k].phase = "resolved" /\ tasks'[k].ret = TRUE
                /\ Contains(windows', tasks[k].config.id)

(* C15: launches do not block one another.  An invocation whose launch     *)
(* function never completes stays suspended, and its window is never       *)
(* registered nor announced; every other invocation suspended on a value   *)
(* can continue whatever the others are doing, and when it does it         *)
(* registers its window and resolves true.                                 *)
C15_LaunchesDoNotBlock ==
    /\ []C15_HungStaysOut
    /\ []C15_ReadyCanResume
    /\ [][C15_ResumeStep]_vars

(* The first launch hangs; the second, made after it, completed. *)
C15_Witness ==
    /\ Len(tasks) = 2
    /\ tasks[1].awaited = "never" /\ Suspended(tasks[1])
    /\ tasks[2].id = "clock" /\ tasks[2].phase = "resolved" /\ tasks[2].ret
    /\ Contains(windows, "clock")

Fails(task) ==
    hasApp(apps, task.id) /\ getApp(apps, task.id).factory \in {"throws", "rejects"}

(* C16: a launch whose launch function throws or rejects registers no      *)
(* window, emits no event, and its failure does not reach the caller: the  *)
(* promise launch returned is never rejected.                              *)
C16_FailureContained ==
    \A k \in 1..Len(tasks) :
        Fails(tasks[k]) =>
            /\ ~Contains(windows, tasks[k].config.id)
            /\ tasks[k].config.id \notin opened
            /\ tasks[k].phase # "rejected"

-----------------------------------------------------------------------------
(* Registry *)

AppIds(r) == {r[i].id : i \in 1..Len(r)}

C17_DuplicateStep ==
    (last'.op = "register" /\ hasApp(apps, last'.arg.id)) => apps' = apps

C17_FirstWins ==
    /\ Len(apps) = Len(registered)
    /\ \A i \in 1..Len(registered) :
          /\ hasApp(apps, registered[i].id)
          /\ getApp(apps, registered[i].id) = registered[i]
    /\ Len(apps) = Cardinality(AppIds(apps))

(* C17: register with an id already registered leaves the registry as it   *)
(* was; after any register and registerAll calls getApp(id) is the first   *)
(* definition registered under id, and there are as many apps as distinct  *)
(* ids.                                                                    *)
C17_DuplicateRegisterIsNoOp == []C17_FirstWins /\ [][C17_DuplicateStep]_vars

(* A second definition was offered under a registered id. *)
C17_Witness ==
    /\ last.op = "register"
    /\ hasApp(apps, last.arg.id) /\ getApp(apps, last.arg.id) # last.arg
    /\ Len(apps) >= 2

GroupRank(a) == indexOf(START_MENU_ORDER, a.startMenuGroup)

(* The place of definition a in sequence r *)
PlaceIn(r, a) == CHOOSE i \in 1..Len(r) : r[i] = a

Grouped(r) == {r[i] : i \in {j \in 1..Len(r) : HasGroup(r[j])}}

ExactlyGrouped(result, r) ==
    /\ {result[i] : i \in 1..Len(result)} = Grouped(r)
    /\ Len(result) = Cardinality(Grouped(r))

(* Group rank, then title *)
InMenuOrder(result) ==
    \A i, j \in 1..Len(result) :
        i < j =>
            \/ GroupRank(result[i]) < GroupRank(result[j])
            \/ /\ GroupRank(result[i]) = GroupRank(result[j])
               /\ localeCompare(result[i].title, result[j].title) <= 0

Permuted(r, p) == [i \in 1..Len(r) |-> r[p[i]]]

SameInAnyOrder(r) ==
    \A p \in Permutations(1..Len(r)) :
        getStartMenuApps(Permuted(r, p)).result = getStartMenuApps(r).result

(* C18 as stated: getStartMenuApps() returns exactly the registered apps   *)
(* that have a group, by group rank primary < secondary < power and then   *)
(* by title, and the result is the same for the same registered set        *)
(* whatever the order of registration.                                     *)
C18_OrderIndependent ==
    last.op = "getStartMenuApps" =>
        /\ ExactlyGrouped(listing.startMenu, apps)
        /\ InMenuOrder(listing.startMenu)
        /\ SameInAnyOrder(apps)

DistinctKeys(r) ==
    \A a, b \in Grouped(r) :
        (a.startMenuGroup = b.startMenuGroup /\ a.title = b.title) => a = b

TiesInRegistrationOrder(result, r) ==
    \A i, j \in 1..Len(result) :
        (i < j /\ result[i].startMenuGroup = result[j].startMenuGroup
               /\ result[i].title = result[j].title) =>
            PlaceIn(r, result[i]) < PlaceIn(r, result[j])

(* C18: getStartMenuApps() returns exactly the registered apps that have a *)
(* group, by group rank primary < secondary < power and then by title;     *)
(* apps of the same group and title come in registration order, and the    *)
(* result does not depend on the registration order when no two grouped    *)
(* apps share group and title.                                             *)
C18_SortedTiesByRegistration ==
    last.op = "getStartMenuApps" =>
        /\ ExactlyGrouped(listing.startMenu, apps)
        /\ InMenuOrder(listing.startMenu)
        /\ TiesInRegistrationOrder(listing.startMenu, apps)
        /\ DistinctKeys(apps) => SameInAnyOrder(apps)

(* A (secondary), B, C (primary) registered in that order list as B, C, A. *)
C18_Witness ==
    /\ last.op = "getStartMenuApps"
    /\ Len(apps) = 3
    /\ apps[1].title = "A" /\ apps[2].title = "B" /\ apps[3].title = "C"
    /\ Len(listing.startMenu) = 3
    /\ listing.startMenu[1].title = "B" /\ listing.startMenu[2].title = "C"
    /\ listing.startMenu[3].title = "A"

(* C19: getDesktopApps() returns exactly the registered apps flagged       *)
(* showOnDesktop, in the order of their registration, whatever register    *)
(* and getStartMenuApps calls came before.                                 *)
C19_DesktopAppsInRegistrationOrder ==
    last.op = "getDesktopApps" =>
        listing.desktop = SelectSeq(registered, OnDesktop)

(* A and C, registered in that order, were listed for the start menu as *)
(* C, A; the desktop listing made afterwards has A, C.                   *)
C19_Witness ==
    /\ last.op = "getDesktopApps"
    /\ Len(listing.startMenu) >= 2 /\ Len(listing.desktop) >= 2
    /\ listing.startMenu[1].title = "C" /\ listing.startMenu[2].title = "A"
    /\ listing.desktop[1].title = "A" /\ listing.desktop[2].title = "C"

-----------------------------------------------------------------------------
(* toggleMinimize *)

(* The places of the events of a type for a window in a trace *)
EventPlaces(seq, type, id) ==
    {i \in 1..Len(seq) : seq[i].type = type /\ seq[i].windowId = id}

(* C20: on a live window that is open, focused and not minimized,          *)
(* toggleMinimize twice gives a window that is live, not minimized and     *)
(* focused, with one minimize event followed by one restore event; one     *)
(* call on a minimized window restores it, one call on a window that is    *)
(* not minimized minimizes it.                                             *)
C20_ToggleTwiceIsIdentity ==
    \A w \in LiveIds :
        LET once  == toggleMinimize(Start, w)
            twice == toggleMinimize(once, w)
        IN  /\ isMinimized(once, w) = ~isMinimized(Start, w)
            /\ (~winbox[w].min /\ winbox[w].focused) =>
                  /\ hasWindow(twice, w)
                  /\ ~twice.winbox[w].min
                  /\ twice.winbox[w].focused
                  /\ Cardinality(EventPlaces(twice.emitted, "minimize", w)) = 1
                  /\ Cardinality(EventPlaces(twice.emitted, "restore", w)) = 1
                  /\ \A i \in EventPlaces(twice.emitted, "minimize", w) :
                       \A j \in EventPlaces(twice.emitted, "restore", w) : i < j

-----------------------------------------------------------------------------
(* Queries *)

QueryOps == {"isMinimized", "hasWindow", "getWindow", "getWindowIds"}

C21_QueryStep ==
    last'.op \in QueryOps =>
        /\ WindowsUnchanged
        /\ emitted' = <<>> /\ calls' = <<>>
        /\ last'.op = "hasWindow" => last'.ret = (last'.arg \in LiveIds)
        /\ last'.op = "isMinimized" =>
              last'.ret = (last'.arg \in LiveIds /\ winbox[last'.arg].min)
        /\ last'.op = "getWindowIds" => IdsOf(last'.ret) = LiveIds

(* C21: isMinimized, hasWindow, getWindow and getWindowIds leave the live  *)
(* windows, each window's state, the id counter and the Taskbar as they    *)
(* were and emit no event, for ids of live windows and for other ids.      *)
C21_QueriesArePure == [][C21_QueryStep]_vars

(* getWindow was asked for an id with no window while a minimized window *)
(* was live.                                                              *)
C21_Witness ==
    /\ last.op = "getWindow" /\ last.arg \notin LiveIds
    /\ last.ret = Undefined
    /\ \E w \in LiveIds : winbox[w].min

(* The ids the createWindow calls of a handler were made for *)
CreatedIds(seq) == {seq[i].id : i \in {j \in 1..Len(seq) : seq[j].op = "createWindow"}}

C22_CreateStep ==
    (CreatedIds(calls') # {} /\ \A i \in 1..Len(calls') : calls'[i].op # "closeWindow") =>
        IdsOf(windows') = IdsOf(windows) \cup CreatedIds(calls')

C22_ListStep ==
    last'.op = "getWindowIds" =>
        /\ IdsOf(last'.ret) = IdsOf(windows)
        /\ Len(last'.ret) = Cardinality(IdsOf(windows))

(* C22: every createWindow call adds exactly its id to the ids of the map, *)
(* and getWindowIds() returns each id of the map once; so after            *)
(* createWindow calls with distinct ids and no close, getWindowIds() is    *)
(* that set of ids, in whatever order the calls were made.                 *)
C22_WindowIdsAreCreatedIds == [][C22_CreateStep /\ C22_ListStep]_vars

(* The dialog was created first, then a window; both are listed. *)
C22_Witness ==
    /\ last.op = "getWindowIds"
    /\ last.ret = <<"shutdown-dialog", "window-1">>
    /\ \E w \in LiveIds : winbox[w].min

-----------------------------------------------------------------------------
(* Reuse of ids *)

(* createWindow for id w, from the present state, makes a new window. *)
CreatesAnew(w) ==
    LET again == createWindow(Start, [id |-> w, title |-> TitleOf(w)])
    IN  /\ again.ret = [id |-> w, fresh |-> TRUE]
        /\ hasWindow(again, w)
        /\ ~again.winbox[w].min /\ ~again.winbox[w].max /\ again.winbox[w].focused
        /\ CountEvents(again.emitted, "open", w) = 1
        /\ w \in DOMAIN again.taskbarItems
        /\ Cardinality({i \in 1..Len(again.programButtons) :
                            again.programButtons[i].id = w}) = 1

(* C23: when a window has closed, hasWindow(id) is false and nothing of    *)
(* the window is left in the engine or the Taskbar; createWindow with an   *)
(* id that has no live window, a closed one included, makes a new window,  *)
(* not minimized and focused, emits one open event for it and gives it     *)
(* one taskbar item and button.                                            *)
C23_ClosedIdIsFree ==
    /\ (last.op = "closeWindow" /\ last.ret = TRUE) =>
          /\ ~hasWindow(Start, last.arg)
          /\ getWindow(Start, last.arg) = Undefined
          /\ last.arg \notin DOMAIN winbox
          /\ last.arg \notin DOMAIN taskbarItems
          /\ ButtonsFor(last.arg) = {}
    /\ \A w \in AllIds \ LiveIds : CreatesAnew(w)

(* A window was closed while another one stayed. *)
C23_Witness ==
    /\ last.op = "closeWindow" /\ last.ret = TRUE
    /\ last.arg \notin LiveIds
    /\ LiveIds # {}

-----------------------------------------------------------------------------
(* Cascade *)

(* C24: no two live windows created without x and y were given the same *)
(* default position.                                                     *)
C24_DefaultPositionsDiffer ==
    \A w1, w2 \in DOMAIN positions :
        w1 # w2 => positions[w1] # positions[w2]

-----------------------------------------------------------------------------
(* The start menu and the desktop icons *)

ClickedOutside ==
    /\ last'.op = "click"
    /\ ~InStartButton(last'.arg)
    /\ ~InStartMenu(last'.arg)

(* C25: whenever the start menu is open, a click on any target outside    *)
(* both the start button and the menu (a desktop icon, empty desktop, a   *)
(* taskbar program button, a window) leaves the start menu closed.        *)
C25_OutsideClickClosesMenu ==
    [][(isStartMenuOpen /\ ClickedOutside) => ~isStartMenuOpen']_vars

(* The same for every outside target but the desktop icons. *)
C25_OutsideClickButIcons ==
    [][(isStartMenuOpen /\ ClickedOutside /\ last'.arg.kind # "icon")
          => ~isStartMenuOpen']_vars

MenuItemClicked == last'.op = "click" /\ last'.arg.kind = "menu-item"

(* The places in the handler's calls of an operation. *)
CallPlaces(cs, op) == {i \in 1..Len(cs) : cs[i].op = op}

(* C26: selecting a start-menu item dispatches its action intent and then *)
(* leaves the start menu closed (flag false, hidden, button released),    *)
(* also when the action is unknown or its handling fails; the action is   *)
(* dispatched before the menu closes.                                     *)
C26_MenuItemDispatchesThenCloses ==
    [][MenuItemClicked =>
          /\ ~isStartMenuOpen' /\ startMenuDisplay' = "none" /\ ~startButtonActive'
          /\ \E i \in CallPlaces(calls', "dispatchEvent") :
                 /\ calls'[i].id = last'.arg.id
                 /\ CallPlaces(calls', "dispatchEvent") = {i}
                 /\ \A j \in CallPlaces(calls', "closeStartMenu") : i < j
          /\ CallPlaces(calls', "closeStartMenu") # {}]_vars

(* An item whose handling fails has been selected. *)
C26_Witness ==
    /\ last.op = "click"
    /\ last.arg.kind = "menu-item"
    /\ last.arg.throws
    /\ ~isStartMenuOpen
    /\ Len(calls) = 2

(* An item with an unknown action has been selected. *)
C26_WitnessUnknown ==
    /\ last.op = "click"
    /\ last.arg.kind = "menu-item"
    /\ last.arg.id = "no-such-action"
    /\ ~last.arg.throws
    /\ ~isStartMenuOpen

StartMenuOpen ==
    isStartMenuOpen /\ startMenuDisplay = "flex" /\ startButtonActive

StartMenuClosed ==
    ~isStartMenuOpen /\ startMenuDisplay = "none" /\ ~startButtonActive

C27_StartMenuStep ==
    /\ last'.op = "openStartMenu" => StartMenuOpen'
    /\ last'.op = "closeStartMenu" => StartMenuClosed'
    /\ last'.op = "toggleStartMenu" => isStartMenuOpen' = ~isStartMenuOpen

(* C27: the start menu is always in exactly one of two states, open (flag *)
(* true, menu shown, button pressed) or closed (flag false, menu hidden,  *)
(* button released); openStartMenu leaves it open and closeStartMenu      *)
(* closed whatever it was, and toggleStartMenu always switches.           *)
C27_StartMenuTwoStates ==
    [](StartMenuOpen \/ StartMenuClosed) /\ [][C27_StartMenuStep]_vars

(* A toggle has closed the menu, with a window open. *)
C27_Witness ==
    /\ last.op = "toggleStartMenu"
    /\ StartMenuClosed
    /\ Len(stack_win) > 0

(* The icons whose element carries the class 'selected'. *)
SelectedIcons == {id \in DOMAIN icons : icons[id].selected}

C28_SelectStep ==
    /\ (last'.op = "click" /\ last'.arg.kind = "icon")
          => SelectedIcons' = {last'.arg.id} /\ selectedIcon' = last'.arg.id
    /\ (last'.op = "click" /\ last'.arg.kind = "desktop")
          => SelectedIcons' = {} /\ selectedIcon' = Null

(* C28: at most one icon is marked selected, the one the selected-icon   *)
(* pointer names; a click on an icon leaves only that icon selected, and *)
(* a click on empty desktop leaves none selected and the pointer null.   *)
C28_AtMostOneIconSelected ==
    /\ [](/\ Cardinality(SelectedIcons) <= 1
          /\ SelectedIcons = IF selectedIcon = Null THEN {} ELSE {selectedIcon})
    /\ [][C28_SelectStep]_vars

(* The recycle bin was clicked after My Computer had been opened. *)
C28_Witness ==
    /\ last.op = "click"
    /\ last.arg = Target("icon", "recycle-bin")
    /\ SelectedIcons = {"recycle-bin"}
    /\ \E i \in 1..Len(windows) : windows[i] = "my-computer"

(* The same live windows, in the same states and stacking, and the same *)
(* taskbar entries and buttons.                                         *)
SameWindowsAndTaskbar(a, b) ==
    /\ a.windows = b.windows
    /\ a.winbox = b.winbox
    /\ a.stack_win = b.stack_win
    /\ a.taskbarItems = b.taskbarItems
    /\ a.programButtons = b.programButtons

(* Selecting, in the open start menu, the item of an action. *)
ViaStartMenu(action) == click(openStartMenu(Start), Target("menu-item", action))

(* C29: double-activating a desktop icon, or pressing Enter while it is  *)
(* selected, has the same effect on the live windows and the taskbar as  *)
(* selecting the start-menu item with the icon's action identifier.      *)
C29_IconActsAsMenuItem ==
    \A id \in DOMAIN icons :
        /\ SameWindowsAndTaskbar(dblclick(Start, id), ViaStartMenu(icons[id].action))
        /\ selectedIcon = id =>
               SameWindowsAndTaskbar(dispatchEvent(Start, "keydown",
                                                   [key |-> "Enter", ctrlKey |-> FALSE]),
                                     ViaStartMenu(icons[id].action))

(* Enter has opened the selected icon's window beside another window. *)
C29_Witness ==
    /\ last.op = "keydown"
    /\ last.arg = "Enter"
    /\ selectedIcon = "recycle-bin"
    /\ Len(stack_win) >= 2
    /\ stack_win[Len(stack_win)] = "recycle-bin"
-----------------------------------------------------------------------------
(* The clock *)

C30_TickStep == last'.op = "updateClock" => last'.arg.taskbar = 0 /\ mounted

(* C30: after Taskbar.destroy(), and so after Desktop.destroy(), the     *)
(* periodic clock refresh is cancelled: a destroyed Taskbar holds no     *)
(* interval and no clock update of it runs after the teardown.           *)
C30_NoClockAfterDestroy ==
    /\ [](/\ ~mounted => ~clockInterval
          /\ \A k \in 1..Len(zombies) : ~zombies[k].clockInterval)
    /\ [][C30_TickStep]_vars

(* The Desktop has been torn down with a window open. *)
C30_Witness ==
    /\ last.op = "destroy"
    /\ ~mounted
    /\ ~clockInterval
    /\ Len(zombies) = 1
    /\ emitted # <<>>

(* A clock update whose read of the time failed. *)
FailedRead == last'.op = "updateClock" /\ ~last'.arg.reads[1]

ShowsTime(now) == clockTime' = getLocalDateTime(now).time_12h

(* C31: on every clock tick, if reading the time fails, the update still *)
(* ends with the display set to a locally computed time and no error     *)
(* escapes the tick.                                                     *)
C31_FailedReadStillShowsTime ==
    [][FailedRead => last'.ret = Returned /\ ShowsTime(last'.arg.now)]_vars

(* The same where the read in the catch block succeeds. *)
C31_FallbackReadShowsTime ==
    [][(FailedRead /\ last'.arg.reads[2])
          => last'.ret = Returned /\ ShowsTime(last'.arg.now)]_vars
-----------------------------------------------------------------------------
(* The Taskbar's program list *)

ProgramOps == {"removeProgram", "setActiveProgram", "updateProgramTitle"}

C32_UnknownIdStep ==
    (last'.op \in ProgramOps /\ last'.arg.id \notin DOMAIN taskbarItems)
        => taskbarItems' = taskbarItems /\ programButtons' = programButtons

(* C32: removeProgram, setActiveProgram and updateProgramTitle called   *)
(* with an id that has no taskbar entry change nothing: the item map,   *)
(* its keys, titles and active flags, and the buttons stay as they are. *)
C32_UnknownProgramIsNoOp == [][C32_UnknownIdStep]_vars

(* setActiveProgram was called with an id no window and no entry has, *)
(* while two windows have entries.                                    *)
C32_Witness ==
    /\ last.op = "setActiveProgram"
    /\ last.arg = [id |-> "no-such-window", active |-> TRUE]
    /\ Cardinality(DOMAIN taskbarItems) = 2
-----------------------------------------------------------------------------
(* The keyboard *)

MetaKey == [key |-> "Meta", ctrlKey |-> FALSE]

CtrlEscape == [key |-> "Escape", ctrlKey |-> TRUE]

(* The start menu is switched when the 'keydown' listener returns. *)
TogglesStartMenu(e) ==
    dispatchEvent(Start, "keydown", e).isStartMenuOpen = ~isStartMenuOpen

(* C33: pressing the Meta key or Ctrl+Escape toggles the start menu: if *)
(* it was closed it is open when the key handler returns, and if it was *)
(* open it is closed.                                                   *)
C33_MetaAndCtrlEscapeToggle ==
    TogglesStartMenu(MetaKey) /\ TogglesStartMenu(CtrlEscape)

(* The Meta key toggles; Ctrl+Escape leaves the menu closed, whatever *)
(* it was.                                                            *)
C33_MetaTogglesCtrlEscapeCloses ==
    /\ TogglesStartMenu(MetaKey)
    /\ ~dispatchEvent(Start, "keydown", CtrlEscape).isStartMenuOpen
-----------------------------------------------------------------------------
(* createWindow on the id of a live window, and without an id *)

(* createWindow was called with the id of a live, minimized window. *)
CreateOnMinimized ==
    /\ last'.op = "createWindow"
    /\ last'.arg \in LiveIds
    /\ winbox[last'.arg].min

(* C34: no path focuses a window that is still minimized: createWindow *)
(* on the id of a live minimized window leaves that window             *)
(* non-minimized and focused, as a taskbar click does.                 *)
C34_CreateOnMinimizedRestores ==
    [][CreateOnMinimized =>
          ~winbox'[last'.arg].min /\ winbox'[last'.arg].focused]_vars

(* A taskbar click on a minimized window leaves it non-minimized and *)
(* focused.                                                          *)
C34_TaskbarClickRestores ==
    \A id \in LiveIds :
        winbox[id].min =>
            LET s == dispatchEvent(Start, "taskbar-click", id)
            IN  ~s.winbox[id].min /\ s.winbox[id].focused

(* createWindow was called without an id. *)
CreateWithoutId == last'.op = "createWindow" /\ last'.arg = ""

(* C35: createWindow called with no id always creates a new window     *)
(* under a synthetic id that is not the id of any live window, whatever *)
(* ids earlier callers supplied; it never focuses an existing window.   *)
C35_NoIdCreatesNewWindow ==
    [][CreateWithoutId =>
          /\ last'.ret.fresh
          /\ last'.ret.id \notin LiveIds
          /\ windows' = Append(windows, last'.ret.id)]_vars

(* The same as long as no live window has the next synthetic id. *)
C35_NoIdCreatesUnlessTaken ==
    [][(CreateWithoutId /\ SyntheticId(windowCounter + 1) \notin LiveIds) =>
          /\ last'.ret.fresh
          /\ windows' = Append(windows, SyntheticId(windowCounter + 1))]_vars
-----------------------------------------------------------------------------
(* Concurrent launches *)

NoDuplicates(seq) ==
    \A i, j \in 1..Len(seq) : seq[i] = seq[j] => i = j

(* The k-th invocation, suspended on a value, continues in this step. *)
Resumes(k) ==
    /\ last'.op = "resume"
    /\ Suspended(tasks[k]) /\ tasks[k].awaited = "value"
    /\ ~Suspended(tasks'[k])

(* The continuation opens the app's window if there is none, and opens *)
(* nothing if there is one; the invocation returns true either way.    *)
C36_ResumeStep ==
    \A k \in 1..Len(tasks) :
        Resumes(k) =>
            LET wid == tasks[k].config.id
            IN  /\ tasks'[k].phase = "resolved" /\ tasks'[k].ret = TRUE
                /\ wid \in LiveIds'
                /\ CountEvents(emitted', "open", wid)
                       = IF wid \in LiveIds THEN 0 ELSE 1
                /\ wid \in LiveIds => windows' = windows

(* C36: under any interleaving of concurrent launch calls for the same *)
(* app, at most one live window with the app's window id exists and    *)
(* one open event is emitted for it, by the launch that continues      *)
(* first; every such launch returns true.                              *)
C36_ConcurrentLaunchesOneWindow ==
    /\ [](NoDuplicates(windows) /\ NoDuplicates(stack_win))
    /\ [][C36_ResumeStep]_vars

(* Two launches of the same app were suspended together and both have *)
(* continued; the second found the window of the first.               *)
C36_Witness ==
    /\ Len(tasks) = 2
    /\ tasks[1].id = "clock" /\ tasks[2].id = "clock"
    /\ tasks[1].phase = "resolved" /\ tasks[2].phase = "resolved"
    /\ tasks[1].ret /\ tasks[2].ret
    /\ last.op = "resume"
    /\ "clock" \in LiveIds
    /\ CountEvents(emitted, "open", "clock") = 0

(* C37: once WindowManager.destroy() has run, directly or through      *)
(* Desktop.destroy(), the live-window map stays empty and no open event *)
(* is emitted, also when a launch that was suspended at the time of     *)
(* the destroy continues afterwards.                                    *)
C37_DestroyedStaysEmpty ==
    /\ [](~mounted => windows = <<>>)
    /\ [][~mounted =>
             \A id \in DOMAIN winbox' : CountEvents(emitted', "open", id) = 0]_vars

(* The destroy itself leaves the map empty. *)
C37_DestroyEmpties ==
    [][last'.op = "destroy" => windows' = <<>> /\ winbox' = EmptyMap]_vars
-----------------------------------------------------------------------------
(* Icons removed *)

(* C38: after any sequence of addIcon, removeIcon, icon clicks and      *)
(* empty-desktop clicks, the selected-icon pointer is null or the id of *)
(* an icon in the icon map: removing the selected icon leaves nothing   *)
(* selected.                                                            *)
C38_SelectedIconIsAnIcon ==
    selectedIcon = Null \/ selectedIcon \in DOMAIN icons

(* Enter with the pointer at a removed icon opens nothing. *)
C38_EnterIgnoresRemovedIcon ==
    (selectedIcon # Null /\ selectedIcon \notin DOMAIN icons) =>
        LET s == dispatchEvent(Start, "keydown", [key |-> "Enter", ctrlKey |-> FALSE])
        IN  s.windows = windows /\ s.emitted = <<>>
-----------------------------------------------------------------------------
(* The active taskbar entry *)

ActiveEntries == {id \in DOMAIN taskbarItems : taskbarItems[id].active}

FocusedWindows == {id \in DOMAIN winbox : winbox[id].focused}

(* C39: after any sequence of window creations, focus changes,          *)
(* minimizes, restores and closes, at most one taskbar entry is active, *)
(* and an entry is active exactly when its window is the focused one.   *)
C39_ActiveEntryIsFocusedWindow ==
    /\ Cardinality(ActiveEntries) <= 1
    /\ ActiveEntries = FocusedWindows
    /\ \A i \in 1..Len(programButtons) :
           programButtons[i].active = (programButtons[i].id \in FocusedWindows)

(* A second window has been opened: its entry is the active one, the *)
(* entry of the window focused before is not.                        *)
C39_Witness ==
    /\ last.op = "createWindow"
    /\ last.ret.fresh
    /\ Len(windows) = 2
    /\ ActiveEntries = {last.ret.id}
    /\ CountEvents(emitted, "blur", windows[1]) = 1
====
